---------------------------- MODULE Spec2Model ----------------------------
(***************************************************************************)
(* teams-sip-blf: a SIP client registers to a PBX, subscribes to the       *)
(* dialog event package of a list of extensions, and turns every inbound   *)
(* NOTIFY into a Microsoft Graph presence update.                          *)
(*                                                                         *)
(* Specifications:                                                         *)
(*   SpecSession     main: Register, then Subscribe (internal/sip client)  *)
(*   FairSession     the same, with replies that do arrive                 *)
(*   SpecDispatch    one NOTIFY handler end to end: handleNOTIFY, the blf  *)
(*                   parser, onBLF, graph SetPresence                      *)
(*   SpecConcurrent  two handlers on a few notifications                   *)
(*   SpecParser      the blf functions applied to a body                   *)
(* Strings the code scans (URIs, header values) are sequences of tokens;   *)
(* an XML body is a record of what encoding/xml can see in it.             *)
(***************************************************************************)
EXTENDS Integers, Sequences, FiniteSets, TLC

VARIABLES
  \* ---- internal/sip client, main goroutine --------------------------------
  extensions,   \* Client.extensions: the configured list, fixed at construction
  pc,           \* position of the main goroutine (main -> Register -> Subscribe)
  subIdx,       \* Subscribe: index of the extension the range loop is at
  failed,       \* Subscribe: the local slice `failed`
  sent,         \* every request handed to client.TransactionRequest, in order
  regReplies,   \* the results getResponse gave Register, in order
  regErr,       \* what Register returned (Pending until it has returned)
  subErr,       \* what Subscribe returned (Pending until it has returned)
  subFailed,    \* whether each finished subscribeOne returned an error, by loop position
  lastSubErr,   \* what the last finished subscribeOne returned
  cancelAt,     \* -1 until main's context is cancelled (SIGINT, SIGTERM); then
                \* the number of requests sent when it was
  \* ---- NOTIFY handlers (internal/sip handleNOTIFY, main onBLF, internal/graph)
  received,     \* number of notifications received so far
  hpc,          \* position of each handler goroutine
  hreq,         \* the request each handler was called with
  htrace,       \* what each handler has done for its current request, in order
  hcall,        \* the SetPresence call each handler is in: arguments and locals
  userIDCache,  \* graph.Client.userIDCache
  readers,      \* handlers holding userIDCacheMu for reading
  writer,       \* the handler holding userIDCacheMu for writing, or "none"
  calls,        \* every resolveUserID call, in the order they were entered
  posts,        \* every setPresence request made, in order
  handled,      \* history: the notifications handled before the current ones
  \* ---- graph.SessionState (internal/graph/state.go) ------------------------
  ByExt,        \* SessionState.ByExt, the in-memory map extension -> sessionId
  file,         \* the state file at SessionState.path
  smuReaders,   \* callers holding SessionState.mu for reading
  smuWriter,    \* the caller holding SessionState.mu for writing, or "none"
  spc,          \* position of each SetSessionID caller
  sarg,         \* the arguments of each caller's SetSessionID call
  sdata,        \* save's local `data` of each caller
  serr,         \* the error save is about to return to each caller
  setCalls,     \* number of SetSessionID calls made so far
  got,          \* what the GetSessionID call in progress read, NoGet outside one
  boot,         \* "first" in the first process; after a restart, the kind of
                \* file LoadSessionState found
  lastSet,      \* history: for each extension the last session id assigned to it
  allOk,        \* history: every SetSessionID call that returned, returned nil
  lastStep,     \* history: the last reply Register or subscribeOne took, and
                \* what it did with it
  \* ---- internal/sip stun.go: contact resolution before the client is built
  cfg,          \* sip.Config: ContactIP, ContactPort, STUNServers
  rpc,          \* position of ResolveContactIfNeeded
  dpc,          \* position of DiscoverPublicAddress
  dIdx,         \* index of its loop in the server list
  dServers,     \* its argument
  probes,       \* every discoverOne call, in order: the address and the outcome
  dRet,         \* what DiscoverPublicAddress returned
  rErr,         \* what ResolveContactIfNeeded returned
  \* ---- cmd/sip-blf-sync: the extension list
  lDir,         \* the directory of the extensions file: what each suffix holds
  lPath,        \* EXTENSIONS_JSON
  lpc,          \* "start", then "loaded" or "exited" (main), "called" (a call
                \* of loadExtensionsFromPath)
  lRet,         \* what the loading function returned
  \* ---- internal/blf called on one body ------------------------------------
  pBody,        \* the body
  pCall,        \* the function called on it, "none" before the call
  pResult       \* what it returned

sessionVars == <<extensions, pc, subIdx, failed, sent, regReplies,
                 regErr, subErr, subFailed, lastSubErr>>

handlerVars == <<received, hpc, hreq, htrace, hcall, userIDCache, readers, writer,
                 calls, posts>>

parserVars == <<pBody, pCall, pResult>>

signalVars == <<cancelAt>>

stunVars == <<cfg, rpc, dpc, dIdx, dServers, probes, dRet, rErr>>

loadVars == <<lDir, lPath, lpc, lRet>>

historyVars == <<handled, lastSet, allOk, lastStep>>

stateVars == <<ByExt, file, smuReaders, smuWriter, spc, sarg, sdata, serr, setCalls,
               got, boot>>

vars == <<sessionVars, handlerVars, parserVars, historyVars, stateVars, signalVars,
          stunVars, loadVars>>

----------------------------------------------------------------------------
(* Bounds of the model.                                                    *)

\* longest configured extension list
MaxExt == 3

\* most <dialog> elements in a document given to the parser
MaxDialogs == 3

\* notifications received in one run
MaxNotifies == 2

\* SetSessionID calls made in one run
MaxSets == 3

\* longest list of STUN servers
MaxServers == 3

----------------------------------------------------------------------------
(* Values.                                                                 *)

\* Extension identifiers of the configuration (config/extensions.json).
ExtIds == {"1001", "2404"}

\* The result of an operation that has not returned yet / returned nil.
Pending == [kind |-> "pending"]
NoErr == [kind |-> "nil"]

\* The error values Register and subscribeOne build.  `ext` is the empty
\* string for Register; `status` is 0 where the message carries no status.
Err(kind, ext, status) == [kind |-> kind, ext |-> ext, status |-> status]

\* Status codes a peer may answer with (a provisional one, the two the code
\* accepts, the challenge, and rejections).
StatusCodes == {100, 200, 202, 401, 404, 407, 500}

\* What the WWW-Authenticate header of a reply holds: nothing, a value
\* digest.ParseChallenge rejects, a challenge digest.Digest cannot answer, or
\* a usable challenge.
ChallengeKinds == {"absent", "unparsable", "unsupported", "valid"}

\* What getResponse can return: a response, or the transaction's death.
Died == [kind |-> "died"]
Response(status, chal) == [kind |-> "response", status |-> status, chal |-> chal]
Replies ==
  {Died} \cup {Response(s, "absent") : s \in StatusCodes}
         \cup {Response(401, c) : c \in ChallengeKinds}

\* A request as handed to TransactionRequest.
Request(method, target, auth) == [method |-> method, target |-> target, auth |-> auth]

\* What TransactionRequest returns: a transaction, or an error.
TxOutcomes == {"tx", "error"}

----------------------------------------------------------------------------
(* internal/sip client: getResponse, Register, Subscribe, subscribeOne.    *)

\* Mutant of Delivered: provisional responses are passed over.
RECURSIVE DeliveredFinal(_)
DeliveredFinal(events) ==
  IF Len(events) > 1 /\ events[1].kind = "response" /\ events[1].status < 200
    THEN DeliveredFinal(Tail(events))
    ELSE events[1]

\* What getResponse's one select takes of the events of a transaction (its
\* responses in order, its termination last when it has one): the first.
Delivered(events) == events[1]

\* getResponse: the first of tx.Done() / tx.Responses() decides.
getResponse(reply) ==
  IF reply.kind = "died" THEN [res |-> reply, err |-> Err("transaction died", "", 0)]
  ELSE [res |-> reply, err |-> NoErr]

\* The final status test of Register and subscribeOne.
IsSuccess(status) == status = 200 \/ status = 202

\* Mutant of ChallengeErr: a 401 without a usable challenge is answered all
\* the same.
ChallengeErrLenient(res, ext) ==
  CASE res.chal = "unsupported" -> Err("digest", ext, 0)
    [] OTHER -> NoErr

\* The 401 branch up to the credentialed request: which error it returns, or
\* NoErr when the resend is to be made.
ChallengeErr(res, ext) ==
  CASE res.chal = "absent" -> Err("401 without WWW-Authenticate", ext, 0)
    [] res.chal = "unparsable" -> Err("parse challenge", ext, 0)
    [] res.chal = "unsupported" -> Err("digest", ext, 0)
    [] OTHER -> NoErr

\* signal.NotifyContext: a SIGINT or SIGTERM cancels main's context.
Cancelled == cancelAt >= 0

Signal ==
  /\ ~Cancelled
  /\ pc \notin {"exited", "stopped"}
  /\ cancelAt' = Len(sent)
  /\ UNCHANGED sessionVars

\* main: <-ctx.Done() returns and main returns.
MainShutdown ==
  /\ pc = "running"
  /\ Cancelled
  /\ pc' = "stopped"
  /\ UNCHANGED <<extensions, subIdx, failed, sent, regReplies, regErr, subErr,
                 subFailed, lastSubErr, cancelAt>>

\* Mutant of MainAfterRegister: main goes on to Subscribe whatever Register
\* returned.
MainAfterRegisterContinue(err) == "subscribe"

\* Mutant of MainAfterRegister: main exits whatever Register returned.
MainAfterRegisterExit(err) == "exited"

\* main's reaction to the value Register returned.
MainAfterRegister(err) == IF err = NoErr THEN "subscribe" ELSE "exited"

\* main's reaction to the value Subscribe returned.
MainAfterSubscribe(err) == IF err = NoErr THEN "running" ELSE "exited"

\* Register returns `err` to main.
RegisterReturn(err) ==
  /\ regErr' = err
  /\ pc' = MainAfterRegister(err)

\* Register: builds the REGISTER request and opens its transaction.
RegisterSend(out) ==
  /\ pc = "register"
  /\ sent' = Append(sent, Request("REGISTER", "", FALSE))
  /\ IF out = "error"
       THEN RegisterReturn(Err("transaction request", "", 0))
       ELSE /\ pc' = "reg_wait1"
            /\ regErr' = regErr
  /\ UNCHANGED <<extensions, subIdx, failed, regReplies, subErr, subFailed, lastSubErr>>

\* Register: the first getResponse and everything up to the next blocking call.
RegisterFirstResponse(reply) ==
  /\ pc = "reg_wait1"
  /\ regReplies' = Append(regReplies, reply)
  /\ LET r == getResponse(reply) IN
       IF r.err # NoErr THEN RegisterReturn(r.err)
       ELSE IF r.res.status = 401
         THEN IF ChallengeErr(r.res, "") # NoErr
                THEN RegisterReturn(ChallengeErr(r.res, ""))
                ELSE /\ pc' = "reg_resend"
                     /\ regErr' = regErr
         ELSE IF ~IsSuccess(r.res.status)
                THEN RegisterReturn(Err("register failed", "", r.res.status))
                ELSE RegisterReturn(NoErr)
  /\ UNCHANGED <<extensions, subIdx, failed, sent, subErr, subFailed, lastSubErr>>

\* Register: the credentialed clone of the request, in a second transaction.
RegisterResend(out) ==
  /\ pc = "reg_resend"
  /\ sent' = Append(sent, Request("REGISTER", "", TRUE))
  /\ IF out = "error"
       THEN RegisterReturn(Err("transaction request", "", 0))
       ELSE /\ pc' = "reg_wait2"
            /\ regErr' = regErr
  /\ UNCHANGED <<extensions, subIdx, failed, regReplies, subErr, subFailed, lastSubErr>>

\* Mutant of RegisterSecondResponse: a second challenge is answered again.
RegisterSecondResponseRetry(reply) ==
  /\ pc = "reg_wait2"
  /\ regReplies' = Append(regReplies, reply)
  /\ LET r == getResponse(reply) IN
       IF r.err # NoErr THEN RegisterReturn(r.err)
       ELSE IF r.res.status = 401 /\ ChallengeErr(r.res, "") = NoErr
         THEN /\ pc' = "reg_resend"
              /\ regErr' = regErr
         ELSE IF ~IsSuccess(r.res.status)
           THEN RegisterReturn(Err("register failed", "", r.res.status))
           ELSE RegisterReturn(NoErr)
  /\ UNCHANGED <<extensions, subIdx, failed, sent, subErr, subFailed, lastSubErr>>

\* Register: the second getResponse and the final status test.
RegisterSecondResponse(reply) ==
  /\ pc = "reg_wait2"
  /\ regReplies' = Append(regReplies, reply)
  /\ LET r == getResponse(reply) IN
       IF r.err # NoErr THEN RegisterReturn(r.err)
       ELSE IF ~IsSuccess(r.res.status)
         THEN RegisterReturn(Err("register failed", "", r.res.status))
         ELSE RegisterReturn(NoErr)
  /\ UNCHANGED <<extensions, subIdx, failed, sent, subErr, subFailed, lastSubErr>>

\* The characters of an extension identifier and of a status code.
Chars(ext) ==
  CASE ext = "1001" -> <<"1", "0", "0", "1">>
    [] ext = "2404" -> <<"2", "4", "0", "4">>
    [] OTHER -> <<ext>>
Digit(d) == <<"0", "1", "2", "3", "4", "5", "6", "7", "8", "9">>[d + 1]
Itoa(status) == <<Digit(status \div 100), Digit((status \div 10) % 10), Digit(status % 10)>>

\* err.Error() of what subscribeOne returns, character by character where
\* the text is formatted from an extension or a status.
ErrorText(err) ==
  CASE err.kind = "transaction died" -> <<"transaction died">>
    [] err.kind = "transaction request" -> <<"transaction request">>
    [] err.kind = "subscribe" ->
         <<"subscribe ">> \o Chars(err.ext) \o <<": ">> \o Itoa(err.status)
    [] OTHER -> <<"subscribe ">> \o Chars(err.ext) \o <<": ", err.kind>>

\* strings.Contains
StringsContains(s, sub) ==
  \E i \in 1..(Len(s) - Len(sub) + 1) : SubSeq(s, i, i + Len(sub) - 1) = sub

\* Subscribe's loop body: what is logged for the value subscribeOne returned.
SubscribeLog(err) ==
  IF err = NoErr THEN "info subscribed"
  ELSE IF StringsContains(ErrorText(err), <<"4", "0", "4">>) THEN "warn 404"
  ELSE "error"

\* Mutant of SubscribeOneReturn: the first failing extension ends the loop.
SubscribeOneReturnAbort(err) ==
  /\ failed' = IF err # NoErr THEN Append(failed, extensions[subIdx]) ELSE failed
  /\ subFailed' = Append(subFailed, err # NoErr)
  /\ lastSubErr' = err
  /\ subIdx' = IF err # NoErr THEN Len(extensions) + 1 ELSE subIdx + 1
  /\ pc' = "subscribe"

\* Subscribe's loop body after subscribeOne returned `err` for the extension
\* at subIdx: record a failure, go on with the next extension.
SubscribeOneReturn(err) ==
  /\ failed' = IF err # NoErr THEN Append(failed, extensions[subIdx]) ELSE failed
  /\ subFailed' = Append(subFailed, err # NoErr)
  /\ lastSubErr' = err
  /\ subIdx' = subIdx + 1
  /\ pc' = "subscribe"

\* subscribeOne: builds the SUBSCRIBE request and opens its transaction.
SubscribeSend(out) ==
  /\ pc = "subscribe"
  /\ subIdx <= Len(extensions)
  /\ sent' = Append(sent, Request("SUBSCRIBE", extensions[subIdx], FALSE))
  /\ IF out = "error"
       THEN SubscribeOneReturn(Err("transaction request", extensions[subIdx], 0))
       ELSE /\ pc' = "sub_wait1"
            /\ UNCHANGED <<failed, subFailed, lastSubErr, subIdx>>
  /\ UNCHANGED <<extensions, regReplies, regErr, subErr>>

\* subscribeOne: the first getResponse and everything up to the next blocking call.
SubscribeFirstResponse(reply) ==
  /\ pc = "sub_wait1"
  /\ LET r == getResponse(reply)
         ext == extensions[subIdx]
     IN
       IF r.err # NoErr THEN SubscribeOneReturn(r.err)
       ELSE IF r.res.status = 401
         THEN IF ChallengeErr(r.res, ext) # NoErr
                THEN SubscribeOneReturn(ChallengeErr(r.res, ext))
                ELSE /\ pc' = "sub_resend"
                     /\ UNCHANGED <<failed, subFailed, lastSubErr, subIdx>>
         ELSE IF ~IsSuccess(r.res.status)
                THEN SubscribeOneReturn(Err("subscribe", ext, r.res.status))
                ELSE SubscribeOneReturn(NoErr)
  /\ UNCHANGED <<extensions, sent, regReplies, regErr, subErr>>

\* subscribeOne: the credentialed clone of the request, in a second transaction.
SubscribeResend(out) ==
  /\ pc = "sub_resend"
  /\ sent' = Append(sent, Request("SUBSCRIBE", extensions[subIdx], TRUE))
  /\ IF out = "error"
       THEN SubscribeOneReturn(Err("transaction request", extensions[subIdx], 0))
       ELSE /\ pc' = "sub_wait2"
            /\ UNCHANGED <<failed, subFailed, lastSubErr, subIdx>>
  /\ UNCHANGED <<extensions, regReplies, regErr, subErr>>

\* subscribeOne: the second getResponse and the final status test.
SubscribeSecondResponse(reply) ==
  /\ pc = "sub_wait2"
  /\ LET r == getResponse(reply)
         ext == extensions[subIdx]
     IN
       IF r.err # NoErr THEN SubscribeOneReturn(r.err)
       ELSE IF ~IsSuccess(r.res.status)
         THEN SubscribeOneReturn(Err("subscribe", ext, r.res.status))
         ELSE SubscribeOneReturn(NoErr)
  /\ UNCHANGED <<extensions, sent, regReplies, regErr, subErr>>

\* Mutant of SubscribeResult: with no extension there is nothing to fail.
SubscribeResultNonEmpty(failedList, exts) ==
  IF Len(exts) > 0 /\ Len(failedList) = Len(exts)
    THEN Err("all subscriptions failed", "", 0)
    ELSE NoErr

\* Mutant of SubscribeResult: any failed extension fails Subscribe.
SubscribeResultAny(failedList, exts) ==
  IF Len(failedList) > 0 \/ Len(exts) = 0
    THEN Err("all subscriptions failed", "", 0)
    ELSE NoErr

\* The value Subscribe returns once the loop is over.
SubscribeResult(failedList, exts) ==
  IF Len(failedList) = Len(exts)
    THEN Err("all subscriptions failed", "", 0)
    ELSE NoErr

\* Subscribe: the loop is over; return to main.
SubscribeReturn ==
  /\ pc = "subscribe"
  /\ subIdx > Len(extensions)
  /\ subErr' = SubscribeResult(failed, extensions)
  /\ pc' = MainAfterSubscribe(SubscribeResult(failed, extensions))
  /\ UNCHANGED <<extensions, subIdx, failed, sent, regReplies, regErr, subFailed, lastSubErr>>

----------------------------------------------------------------------------
(* Strings.  A string the code scans is a sequence of tokens; the          *)
(* delimiters it looks for (":", "@", ">", ";") are tokens of their own.   *)

EmptyStr == <<>>

\* strings.Index for a one-character pattern: the first position of `tok`
\* in s, 0 when there is none (positions count from 1).
Index(s, tok) ==
  IF \E i \in 1..Len(s) : s[i] = tok
    THEN CHOOSE i \in 1..Len(s) : s[i] = tok /\ \A j \in 1..(i - 1) : s[j] # tok
    ELSE 0

\* strings.IndexAny: the first position of any of `toks` in s, 0 when none.
IndexAny(s, toks) ==
  IF \E i \in 1..Len(s) : s[i] \in toks
    THEN CHOOSE i \in 1..Len(s) : s[i] \in toks /\ \A j \in 1..(i - 1) : s[j] \notin toks
    ELSE 0

\* s[i+1:] and s[:i] for a delimiter found at position i.
After(s, i) == SubSeq(s, i + 1, Len(s))
Before(s, i) == SubSeq(s, 1, i - 1)

\* A dialog state as written in a document: `text` in lower case, whether
\* it is written in upper case, and whether white space surrounds it.
Written(text, upper, pad) == [text |-> text, upper |-> upper, pad |-> pad]
Tok(text) == Written(text, FALSE, FALSE)
NoText == Tok("")

\* strings.ToLower and strings.TrimSpace.
ToLower(t) == [t EXCEPT !.upper = FALSE]
TrimSpace(t) == [t EXCEPT !.pad = FALSE]

----------------------------------------------------------------------------
(* Bodies.  What encoding/xml and bytes.Contains can see of a NOTIFY body. *)

RfcNamespace == "urn:ietf:params:xml:ns:dialog-info"

\* len(body) = 0
EmptyBody == [kind |-> "empty"]

\* Bytes that are no XML document; `words` are the literals among
\* "dialog-info", "open", "closed" that occur in them.
TextBody(words) == [kind |-> "text", words |-> words]

\* A well-formed XML document: the root element's local name and namespace,
\* its entity attribute, its <dialog> children and the literals that occur in
\* its character data.
XmlBody(root, xmlns, entity, dialogs, words) ==
  [kind |-> "xml", root |-> root, xmlns |-> xmlns, entity |-> entity,
   dialogs |-> dialogs, words |-> words]

\* One <dialog>: the text of its <state> child, its state attribute, and the
\* text of its <local><identity> child.
DialogElem(state, stateAttr, localIdentity) ==
  [state |-> state, stateAttr |-> stateAttr, localIdentity |-> localIdentity]

\* bytes.Contains(body, word)
Contains(body, word) ==
  CASE body.kind = "empty" -> FALSE
    [] body.kind = "text" -> word \in body.words
    [] OTHER -> word \in body.words \/ word = body.root

\* xml.Unmarshal(body, &DialogInfo) returns nil: the root must be
\* <dialog-info> in the RFC 4235 namespace.
DecodesNamespaced(body) ==
  body.kind = "xml" /\ body.root = "dialog-info" /\ body.xmlns = RfcNamespace

\* xml.Unmarshal(body, &dialogInfoNoNS) returns nil: the root must be
\* <dialog-info>, in any namespace or none.
DecodesNoNamespace(body) ==
  body.kind = "xml" /\ body.root = "dialog-info"

----------------------------------------------------------------------------
(* internal/blf: the parser and the state mapper.                          *)

StateIdle == "idle"
StateRinging == "ringing"
StateBusy == "busy"
StateUnknown == "unknown"

\* Mutant of dialogState: the <state> text is taken as written, untrimmed.
dialogStateUntrimmed(d) ==
  ToLower(IF d.state = NoText THEN TrimSpace(d.stateAttr) ELSE d.state)

\* Dialog.dialogState: the <state> child, else the state attribute.
dialogState(d) ==
  LET s == TrimSpace(d.state) IN
    ToLower(IF s = NoText THEN TrimSpace(d.stateAttr) ELSE s)

\* Mutant of dialogStateStr: the state attribute is never consulted.
dialogStateStrElementOnly(s, sAttr) == TrimSpace(ToLower(s))

\* dialogStateStr: the same for the namespace-free schema.
dialogStateStr(s, sAttr) ==
  LET s1 == TrimSpace(ToLower(s)) IN
    IF s1 = NoText THEN TrimSpace(ToLower(sAttr)) ELSE s1

\* The switch both dialog loops apply to one effective state: "skip" stands
\* for `continue`.
StateOfDialog(s) ==
  CASE s = Tok("terminated") \/ s = NoText -> "skip"
    [] s = Tok("trying") \/ s = Tok("early") \/ s = Tok("proceeding") -> StateRinging
    [] s = Tok("confirmed") -> StateBusy
    [] OTHER -> StateBusy

\* Mutant of dialogsToState: the most severe dialog decides, not the first.
dialogsToStateSevere(dialogs) ==
  IF \E i \in 1..Len(dialogs) : StateOfDialog(dialogState(dialogs[i])) = StateBusy
    THEN StateBusy
  ELSE IF \E i \in 1..Len(dialogs) : StateOfDialog(dialogState(dialogs[i])) = StateRinging
    THEN StateRinging
  ELSE StateIdle

\* dialogsToState: the first dialog that is not skipped decides.
RECURSIVE dialogsToState(_)
dialogsToState(dialogs) ==
  IF Len(dialogs) = 0 THEN StateIdle
  ELSE LET r == StateOfDialog(dialogState(Head(dialogs))) IN
         IF r = "skip" THEN dialogsToState(Tail(dialogs)) ELSE r

\* dialogsNoNSToState: the same loop over the namespace-free schema.
RECURSIVE dialogsNoNSToState(_)
dialogsNoNSToState(dialogs) ==
  IF Len(dialogs) = 0 THEN StateIdle
  ELSE LET r == StateOfDialog(dialogStateStr(Head(dialogs).state, Head(dialogs).stateAttr)) IN
         IF r = "skip" THEN dialogsNoNSToState(Tail(dialogs)) ELSE r

\* Mutant of ParseDialogInfo: a body neither schema decodes is taken as idle.
ParseDialogInfoLenient(body) ==
  IF DecodesNoNamespace(body) THEN dialogsToState(body.dialogs) ELSE StateIdle

\* ParseDialogInfo: the namespaced schema first, then the namespace-free one.
ParseDialogInfo(body) ==
  IF DecodesNamespaced(body) THEN dialogsToState(body.dialogs)
  ELSE IF ~DecodesNoNamespace(body) THEN StateUnknown
  ELSE dialogsNoNSToState(body.dialogs)

\* The scan ExtensionFromDialogInfo applies to the entity attribute and to a
\* local identity: what follows the first ":" up to the first "@"; `found`
\* is FALSE when there is no ":".
UserOfURI(uri) ==
  LET idx == Index(uri, ":")
      rest == After(uri, idx)
      at == Index(rest, "@")
  IN IF idx = 0 THEN [found |-> FALSE, user |-> EmptyStr]
     ELSE IF at > 0 THEN [found |-> TRUE, user |-> Before(rest, at)]
     ELSE [found |-> TRUE, user |-> rest]

\* ExtensionFromDialogInfo: decodes with the namespaced schema only.
ExtensionFromDialogInfo(body) ==
  IF ~DecodesNamespaced(body) THEN EmptyStr
  ELSE IF body.entity # EmptyStr /\ UserOfURI(body.entity).found
    THEN UserOfURI(body.entity).user
  ELSE IF Len(body.dialogs) > 0 /\ body.dialogs[1].localIdentity # EmptyStr
          /\ UserOfURI(body.dialogs[1].localIdentity).found
    THEN UserOfURI(body.dialogs[1].localIdentity).user
  ELSE EmptyStr

\* ParsePresenceBody: the looser parser handleNOTIFY falls back to.
ParsePresenceBody(body) ==
  IF Contains(body, "dialog-info") THEN ParseDialogInfo(body)
  ELSE IF Contains(body, "closed") /\ ~Contains(body, "open") THEN StateIdle
  ELSE IF Contains(body, "open") THEN StateBusy
  ELSE StateUnknown

GraphAvailabilityAvailable == "Available"
GraphAvailabilityBusy == "Busy"
GraphActivityAvailable == "Available"
GraphActivityInACall == "InACall"

\* Mutant of ToGraph: only busy is published as busy.
ToGraphBusyOnly(s) ==
  IF s = StateBusy
    THEN <<GraphAvailabilityBusy, GraphActivityInACall>>
    ELSE <<GraphAvailabilityAvailable, GraphActivityAvailable>>

\* Mutant of ToGraph: an unknown state is published as busy.
ToGraphFailClosed(s) ==
  IF s = StateIdle
    THEN <<GraphAvailabilityAvailable, GraphActivityAvailable>>
    ELSE <<GraphAvailabilityBusy, GraphActivityInACall>>

\* State.ToGraph
ToGraph(s) ==
  CASE s = StateIdle -> <<GraphAvailabilityAvailable, GraphActivityAvailable>>
    [] s = StateRinging \/ s = StateBusy -> <<GraphAvailabilityBusy, GraphActivityInACall>>
    [] OTHER -> <<GraphAvailabilityAvailable, GraphActivityAvailable>>

----------------------------------------------------------------------------
(* Configuration of the running process (cmd/sip-blf-sync main).           *)

\* The e-mail address (userPrincipalName) configured for an extension.
EmailOf(ext) == IF ext = "1001" THEN "alice@example.com" ELSE "bob@example.com"

\* Mutant of HasEmail: no extension has an e-mail address.
HasEmailNone(exts, ext) == FALSE

\* main's emailByExt: the extension, a one-token string, is a key of the map.
HasEmail(exts, ext) ==
  Len(ext) = 1 /\ \E i \in 1..Len(exts) : exts[i] = ext[1]

\* graph.Client.clientID, the application id.
ClientID == "app-client-id"

\* Object ids the directory may answer with.
ObjectIds == {"guid-1", "guid-2"}

\* What c.graph.Users().ByUserId(upn).Get returns: an error, a nil user, a
\* user without id, or a user with an id.
LookupResult(kind, id) == [kind |-> kind, id |-> id]
LookupFailures == {LookupResult(k, "") : k \in {"error", "nil user", "no id"}}

\* The goroutines the SIP server runs handleNOTIFY on.
Handlers == {"h1", "h2"}

NoRequest == [kind |-> "none"]
NoCall == [kind |-> "none"]

\* One step of a handler, as the trace of its notification records it.
Event(ev, ok, extension, state, availability, activity) ==
  [ev |-> ev, ok |-> ok, extension |-> extension, state |-> state,
   availability |-> availability, activity |-> activity]
RespondEvent(ok) == Event("respond", ok, EmptyStr, "", "", "")
ParseEvent == Event("parse", TRUE, EmptyStr, "", "", "")
CallbackEvent(extension, state) == Event("callback", TRUE, extension, state, "", "")
LookupEvent(ok) == Event("lookup", ok, EmptyStr, "", "", "")
PostEvent(ok, availability, activity) == Event("post", ok, EmptyStr, "", availability, activity)

\* A NOTIFY request: its body and its To header (absent, or its value).
Notify(body, to) == [kind |-> "notify", body |-> body, to |-> to]
NoHeader == [present |-> FALSE, value |-> EmptyStr]
Header(value) == [present |-> TRUE, value |-> value]

----------------------------------------------------------------------------
(* internal/sip client: handleNOTIFY; main: onBLF.                         *)

\* handleNOTIFY's fallback: the user part of the To header.
ToExtension(to) ==
  IF ~to.present THEN EmptyStr
  ELSE LET val == to.value
           idx == Index(val, ":")
           rest0 == After(val, idx)
           end == IndexAny(rest0, {">", ";"})
           rest == IF end > 0 THEN Before(rest0, end) ELSE rest0
           at == Index(rest, "@")
       IN IF idx = 0 THEN EmptyStr
          ELSE IF at > 0 THEN Before(rest, at)
          ELSE EmptyStr

\* Mutant of NotifyExtension: the To header is never consulted.
NotifyExtensionBodyOnly(req) == ExtensionFromDialogInfo(req.body)

\* handleNOTIFY: the extension of a notification, from the body, else from To.
NotifyExtension(req) ==
  IF ExtensionFromDialogInfo(req.body) # EmptyStr
    THEN ExtensionFromDialogInfo(req.body)
    ELSE ToExtension(req.to)

\* handleNOTIFY: the state of a notification.
NotifyState(body) ==
  IF ParseDialogInfo(body) = StateUnknown
    THEN ParsePresenceBody(body)
    ELSE ParseDialogInfo(body)

\* Mutant of NotifyReceive: an empty body returns before the 200 is sent.
NotifyReceiveLazy(h, req, respondOk) ==
  /\ hpc[h] = "idle"
  /\ received < MaxNotifies
  /\ received' = received + 1
  /\ hreq' = [hreq EXCEPT ![h] = req]
  /\ hcall' = [hcall EXCEPT ![h] = NoCall]
  /\ IF req.body.kind = "empty"
       THEN /\ htrace' = [htrace EXCEPT ![h] = <<>>]
            /\ hpc' = [hpc EXCEPT ![h] = "idle"]
       ELSE /\ htrace' = [htrace EXCEPT ![h] = <<RespondEvent(respondOk)>>]
            /\ hpc' = [hpc EXCEPT ![h] = IF respondOk THEN "acked" ELSE "idle"]
  /\ UNCHANGED <<userIDCache, readers, writer, calls, posts>>

\* Mutant of NotifyReceive: the handler goes on to the body although the
\* 200 OK could not be sent.
NotifyReceiveAnyway(h, req, respondOk) ==
  /\ hpc[h] = "idle"
  /\ received < MaxNotifies
  /\ received' = received + 1
  /\ hreq' = [hreq EXCEPT ![h] = req]
  /\ hcall' = [hcall EXCEPT ![h] = NoCall]
  /\ htrace' = [htrace EXCEPT ![h] = <<RespondEvent(respondOk)>>]
  /\ hpc' = [hpc EXCEPT ![h] = "acked"]
  /\ UNCHANGED <<userIDCache, readers, writer, calls, posts>>

\* handleNOTIFY, up to the return of tx.Respond: the 200 OK is built and
\* sent; when sending fails the handler logs and returns.
NotifyReceive(h, req, respondOk) ==
  /\ hpc[h] = "idle"
  /\ received < MaxNotifies
  /\ received' = received + 1
  /\ hreq' = [hreq EXCEPT ![h] = req]
  /\ hcall' = [hcall EXCEPT ![h] = NoCall]
  /\ htrace' = [htrace EXCEPT ![h] = <<RespondEvent(respondOk)>>]
  /\ hpc' = [hpc EXCEPT ![h] = IF respondOk THEN "acked" ELSE "idle"]
  /\ UNCHANGED <<userIDCache, readers, writer, calls, posts>>

\* The calls returned so far.
Returned == {i \in 1..Len(calls) : calls[i].ret # "pending"}

\* handleNOTIFY after the 200: the body is read, the callback invoked; onBLF
\* maps the state and calls SetPresence, which enters resolveUserID.
NotifyProcess(h) ==
  /\ hpc[h] = "acked"
  /\ LET req == hreq[h]
         extension == NotifyExtension(req)
         state == NotifyState(req.body)
         pair == ToGraph(state)
     IN
       IF req.body.kind = "empty"
         THEN /\ hpc' = [hpc EXCEPT ![h] = "idle"]
              /\ UNCHANGED <<htrace, hcall, calls>>
       ELSE IF extension = EmptyStr
         THEN /\ hpc' = [hpc EXCEPT ![h] = "idle"]
              /\ htrace' = [htrace EXCEPT ![h] = Append(@, ParseEvent)]
              /\ UNCHANGED <<hcall, calls>>
       ELSE IF ~HasEmail(extensions, extension)
         THEN /\ hpc' = [hpc EXCEPT ![h] = "idle"]
              /\ htrace' = [htrace EXCEPT ![h] =
                   @ \o <<ParseEvent, CallbackEvent(extension, state)>>]
              /\ UNCHANGED <<hcall, calls>>
       ELSE /\ hpc' = [hpc EXCEPT ![h] = "rlock"]
            /\ htrace' = [htrace EXCEPT ![h] =
                 @ \o <<ParseEvent, CallbackEvent(extension, state)>>]
            /\ hcall' = [hcall EXCEPT ![h] =
                 [kind |-> "SetPresence", userID |-> EmailOf(extension[1]),
                  extension |-> extension, availability |-> pair[1],
                  activity |-> pair[2], objectID |-> "", idx |-> Len(calls) + 1]]
            /\ calls' = Append(calls,
                 [upn |-> EmailOf(extension[1]), ret |-> "pending", id |-> "",
                  lookedUp |-> FALSE, doneBefore |-> Returned])
  /\ UNCHANGED <<received, hreq, userIDCache, readers, writer, posts>>

----------------------------------------------------------------------------
(* internal/graph client: resolveUserID and SetPresence.                   *)

\* resolveUserID: userIDCacheMu.RLock()
ResolveRLock(h) ==
  /\ hpc[h] = "rlock"
  /\ writer = "none"
  /\ readers' = readers \cup {h}
  /\ hpc' = [hpc EXCEPT ![h] = "rlocked"]
  /\ UNCHANGED <<received, hreq, htrace, hcall, userIDCache, writer, calls, posts>>

\* Mutant of ResolveCheck: on a miss the read lock is kept over the lookup.
ResolveCheckHolding(h) ==
  /\ hpc[h] = "rlocked"
  /\ LET upn == hcall[h].userID IN
       IF upn \in DOMAIN userIDCache
         THEN /\ hcall' = [hcall EXCEPT ![h].objectID = userIDCache[upn]]
              /\ calls' = [calls EXCEPT ![hcall[h].idx].ret = "ok",
                                        ![hcall[h].idx].id = userIDCache[upn]]
              /\ hpc' = [hpc EXCEPT ![h] = "post"]
              /\ readers' = readers \ {h}
         ELSE /\ hpc' = [hpc EXCEPT ![h] = "lookup"]
              /\ UNCHANGED <<hcall, calls, readers>>
  /\ UNCHANGED <<received, hreq, htrace, userIDCache, writer, posts>>

\* resolveUserID: the cache is read and the read lock released; a hit
\* returns the cached id to SetPresence.
ResolveCheck(h) ==
  /\ hpc[h] = "rlocked"
  /\ readers' = readers \ {h}
  /\ LET upn == hcall[h].userID IN
       IF upn \in DOMAIN userIDCache
         THEN /\ hcall' = [hcall EXCEPT ![h].objectID = userIDCache[upn]]
              /\ calls' = [calls EXCEPT ![hcall[h].idx].ret = "ok",
                                        ![hcall[h].idx].id = userIDCache[upn]]
              /\ hpc' = [hpc EXCEPT ![h] = "post"]
         ELSE /\ hpc' = [hpc EXCEPT ![h] = "lookup"]
              /\ UNCHANGED <<hcall, calls>>
  /\ UNCHANGED <<received, hreq, htrace, userIDCache, writer, posts>>

\* Mutant of ResolveLookup: a failed lookup is cached as an empty id.
ResolveLookupCaching(h, result) ==
  /\ hpc[h] = "lookup"
  /\ calls' = [calls EXCEPT ![hcall[h].idx].lookedUp = TRUE,
                            ![hcall[h].idx].ret =
                               IF result.kind = "ok" THEN @ ELSE "err"]
  /\ htrace' = [htrace EXCEPT ![h] = Append(@, LookupEvent(result.kind = "ok"))]
  /\ hcall' = [hcall EXCEPT ![h].objectID = result.id]
  /\ hpc' = [hpc EXCEPT ![h] = IF result.kind = "ok" THEN "wlock" ELSE "idle"]
  /\ userIDCache' =
       IF result.kind = "ok" THEN userIDCache
       ELSE [u \in DOMAIN userIDCache \cup {hcall[h].userID} |->
               IF u = hcall[h].userID THEN "" ELSE userIDCache[u]]
  /\ UNCHANGED <<received, hreq, readers, writer, posts>>

\* resolveUserID: the directory lookup returns.  A failure is returned by
\* SetPresence and onBLF, which log it; the handler is done.
ResolveLookup(h, result) ==
  /\ hpc[h] = "lookup"
  /\ IF result.kind # "ok"
       THEN /\ calls' = [calls EXCEPT ![hcall[h].idx].lookedUp = TRUE,
                                      ![hcall[h].idx].ret = "err"]
            /\ htrace' = [htrace EXCEPT ![h] = Append(@, LookupEvent(FALSE))]
            /\ hpc' = [hpc EXCEPT ![h] = "idle"]
            /\ UNCHANGED hcall
       ELSE /\ calls' = [calls EXCEPT ![hcall[h].idx].lookedUp = TRUE]
            /\ htrace' = [htrace EXCEPT ![h] = Append(@, LookupEvent(TRUE))]
            /\ hcall' = [hcall EXCEPT ![h].objectID = result.id]
            /\ hpc' = [hpc EXCEPT ![h] = "wlock"]
  /\ UNCHANGED <<received, hreq, userIDCache, readers, writer, posts>>

\* resolveUserID: userIDCacheMu.Lock()
ResolveWLock(h) ==
  /\ hpc[h] = "wlock"
  /\ writer = "none"
  /\ readers = {}
  /\ writer' = h
  /\ hpc' = [hpc EXCEPT ![h] = "wlocked"]
  /\ UNCHANGED <<received, hreq, htrace, hcall, userIDCache, readers, calls, posts>>

\* Mutant of CachePut: nothing is stored.
CacheKeep(cache, upn, id) == cache

\* The cache after c.userIDCache[upn] = id.
CachePut(cache, upn, id) ==
  [u \in DOMAIN cache \cup {upn} |-> IF u = upn THEN id ELSE cache[u]]

\* resolveUserID: the id is stored, the lock released, the id returned.
ResolveStore(h) ==
  /\ hpc[h] = "wlocked"
  /\ userIDCache' = CachePut(userIDCache, hcall[h].userID, hcall[h].objectID)
  /\ writer' = "none"
  /\ calls' = [calls EXCEPT ![hcall[h].idx].ret = "ok",
                            ![hcall[h].idx].id = hcall[h].objectID]
  /\ hpc' = [hpc EXCEPT ![h] = "post"]
  /\ UNCHANGED <<received, hreq, htrace, hcall, readers, posts>>

\* Mutant of PresencePost: no request is made when the last one made for
\* the extension carried the same availability.
PresencePostDedup(h, ok) ==
  /\ hpc[h] = "post"
  /\ LET mine == {i \in 1..Len(posts) : posts[i].extension = hcall[h].extension}
         repeat == /\ mine # {}
                   /\ posts[CHOOSE i \in mine : \A j \in mine : j <= i].availability
                        = hcall[h].availability
     IN IF repeat
          THEN UNCHANGED <<posts, htrace>>
          ELSE /\ posts' = Append(posts,
                    [objectID |-> hcall[h].objectID, availability |-> hcall[h].availability,
                     activity |-> hcall[h].activity, sessionId |-> ClientID,
                     extension |-> hcall[h].extension])
               /\ htrace' = [htrace EXCEPT ![h] =
                    Append(@, PostEvent(ok, hcall[h].availability, hcall[h].activity))]
  /\ hpc' = [hpc EXCEPT ![h] = "idle"]
  /\ UNCHANGED <<received, hreq, hcall, userIDCache, readers, writer, calls>>

\* Mutant of PresencePost: the request carries the session id stored for the
\* extension when there is one.
PresencePostStored(h, ok) ==
  /\ hpc[h] = "post"
  /\ posts' = Append(posts,
       [objectID |-> hcall[h].objectID, availability |-> hcall[h].availability,
        activity |-> hcall[h].activity,
        sessionId |-> IF hcall[h].extension[1] \in DOMAIN ByExt
                         THEN ByExt[hcall[h].extension[1]]
                         ELSE ClientID,
        extension |-> hcall[h].extension])
  /\ htrace' = [htrace EXCEPT ![h] =
       Append(@, PostEvent(ok, hcall[h].availability, hcall[h].activity))]
  /\ hpc' = [hpc EXCEPT ![h] = "idle"]
  /\ UNCHANGED <<received, hreq, hcall, userIDCache, readers, writer, calls>>

\* Mutant of PresencePost: a failed request is made again.
PresencePostRetry(h, ok) ==
  /\ hpc[h] = "post"
  /\ posts' = Append(posts,
       [objectID |-> hcall[h].objectID, availability |-> hcall[h].availability,
        activity |-> hcall[h].activity, sessionId |-> ClientID,
        extension |-> hcall[h].extension])
  /\ htrace' = [htrace EXCEPT ![h] =
       Append(@, PostEvent(ok, hcall[h].availability, hcall[h].activity))]
  /\ hpc' = [hpc EXCEPT ![h] = IF ok THEN "idle" ELSE "post"]
  /\ UNCHANGED <<received, hreq, hcall, userIDCache, readers, writer, calls>>

\* SetPresence: the setPresence call is made and returns; onBLF logs the
\* outcome and the handler is done.
PresencePost(h, ok) ==
  /\ hpc[h] = "post"
  /\ posts' = Append(posts,
       [objectID |-> hcall[h].objectID, availability |-> hcall[h].availability,
        activity |-> hcall[h].activity, sessionId |-> ClientID,
        extension |-> hcall[h].extension])
  /\ htrace' = [htrace EXCEPT ![h] =
       Append(@, PostEvent(ok, hcall[h].availability, hcall[h].activity))]
  /\ hpc' = [hpc EXCEPT ![h] = "idle"]
  /\ UNCHANGED <<received, hreq, hcall, userIDCache, readers, writer, calls>>

----------------------------------------------------------------------------
(* graph.SessionState: the persisted map extension -> sessionId.           *)

\* Session ids a caller may store.
Tokens == {"tok-a", "tok-b"}

\* Goroutines calling SetSessionID.
Callers == {"s1", "s2"}

\* A map[string]string is a function from its keys.
EmptyMap == [e \in {} |-> ""]
Put(m, ext, id) == (ext :> id) @@ m

\* The state file: missing, of length zero (as O_TRUNC leaves it), holding
\* part of a document, or holding the JSON document of a map.
FileAbsent == [kind |-> "absent", image |-> EmptyMap]
FileEmpty == [kind |-> "empty", image |-> EmptyMap]
FilePartial == [kind |-> "partial", image |-> EmptyMap]
FileImage(m) == [kind |-> "image", image |-> m]

\* A session id that is not valid UTF-8 (a byte 0xFF), and the string the
\* JSON encoder writes for it: every invalid byte becomes U+FFFD.
InvalidToken == "tok-0xFF"
ReplacedToken == "tok-U+FFFD"
ValidUTF8(str) == str # InvalidToken
ToValidUTF8(str) == IF ValidUTF8(str) THEN str ELSE ReplacedToken

\* json.MarshalIndent of a map[string]string: the document has the map's
\* keys (the extension identifiers, all valid UTF-8) and its values coerced
\* to valid UTF-8.  json.Unmarshal gives back the map the document spells.
MarshalIndent(m) == [e \in DOMAIN m |-> ToValidUTF8(m[e])]
Unmarshal(doc) == doc

NoArg == [extension |-> "", sessionID |-> ""]
NoGet == [extension |-> "", sessionID |-> "", called |-> FALSE]

\* Mutant of LoadSessionState: the document found is not read.
LoadSessionStateFresh(f) ==
  CASE f.kind = "absent" -> [ByExt |-> EmptyMap, file |-> FileImage(MarshalIndent(EmptyMap))]
    [] OTHER -> [ByExt |-> EmptyMap, file |-> f]

\* What LoadSessionState returns for the file it finds, and the file it
\* leaves: a missing file is created with the empty map, a file of length
\* zero gives the empty map, a document gives its map.  (For a file that
\* is no document it returns an error; see Restart.)
LoadSessionState(f) ==
  CASE f.kind = "absent" -> [ByExt |-> EmptyMap, file |-> FileImage(MarshalIndent(EmptyMap))]
    [] f.kind = "empty" -> [ByExt |-> EmptyMap, file |-> f]
    [] OTHER -> [ByExt |-> Unmarshal(f.image), file |-> f]

\* No caller is in SetSessionID.
InitCallers ==
  /\ smuReaders = {}
  /\ smuWriter = "none"
  /\ spc = [c \in Callers |-> "idle"]
  /\ sarg = [c \in Callers |-> NoArg]
  /\ sdata = [c \in Callers |-> EmptyMap]
  /\ serr = [c \in Callers |-> NoErr]
  /\ setCalls = 0
  /\ got = NoGet
  /\ boot = "first"

\* NewClient on a first start: there is no state file.
InitState ==
  /\ ByExt = LoadSessionState(FileAbsent).ByExt
  /\ file = LoadSessionState(FileAbsent).file
  /\ InitCallers

\* The files a start may find.
StateFiles ==
  {FileAbsent, FileEmpty, FileImage(EmptyMap), FileImage(Put(EmptyMap, "1001", "tok-a")),
   FileImage(Put(Put(EmptyMap, "1001", "tok-a"), "2404", "tok-b"))}

\* NewClient on any start.
InitLoaded ==
  /\ \E f \in StateFiles :
       /\ ByExt = LoadSessionState(f).ByExt
       /\ file = LoadSessionState(f).file
  /\ InitCallers

\* SetSessionID is called.
SetSessionIDCall(c, extension, sessionID) ==
  /\ spc[c] = "idle"
  /\ setCalls < MaxSets
  /\ setCalls' = setCalls + 1
  /\ sarg' = [sarg EXCEPT ![c] = [extension |-> extension, sessionID |-> sessionID]]
  /\ spc' = [spc EXCEPT ![c] = "lock"]
  /\ UNCHANGED <<ByExt, file, smuReaders, smuWriter, sdata, serr, got, boot>>

\* s.mu.Lock(): no reader and no writer holds the mutex.
SetSessionIDLock(c) ==
  /\ spc[c] = "lock"
  /\ smuWriter = "none"
  /\ smuReaders = {}
  /\ smuWriter' = c
  /\ spc' = [spc EXCEPT ![c] = "set"]
  /\ UNCHANGED <<ByExt, file, smuReaders, sarg, sdata, serr, setCalls, got, boot>>

\* s.ByExt[extension] = sessionID; s.mu.Unlock().
SetSessionIDStore(c) ==
  /\ spc[c] = "set"
  /\ ByExt' = Put(ByExt, sarg[c].extension, sarg[c].sessionID)
  /\ smuWriter' = "none"
  /\ spc' = [spc EXCEPT ![c] = "rlock"]
  /\ UNCHANGED <<file, smuReaders, sarg, sdata, serr, setCalls, got, boot>>

\* save: s.mu.RLock(), shared with the other readers.
SaveRLock(c) ==
  /\ spc[c] = "rlock"
  /\ smuWriter = "none"
  /\ smuReaders' = smuReaders \cup {c}
  /\ spc' = [spc EXCEPT ![c] = "marshal"]
  /\ UNCHANGED <<ByExt, file, smuWriter, sarg, sdata, serr, setCalls, got, boot>>

\* save: json.MarshalIndent of the map (it cannot fail for a map of
\* strings), then os.MkdirAll of the file's directory, which may fail.
SaveMarshal(c, ok) ==
  /\ spc[c] = "marshal"
  /\ sdata' = [sdata EXCEPT ![c] = MarshalIndent(ByExt)]
  /\ serr' = [serr EXCEPT ![c] = IF ok THEN NoErr ELSE Err("mkdir", "", 0)]
  /\ spc' = [spc EXCEPT ![c] = IF ok THEN "open" ELSE "ret"]
  /\ UNCHANGED <<ByExt, file, smuReaders, smuWriter, sarg, setCalls, got, boot>>

\* os.WriteFile, first system call: the file is opened with
\* O_WRONLY|O_CREATE|O_TRUNC, which empties it; a failed open leaves it.
WriteFileOpen(c, ok) ==
  /\ spc[c] = "open"
  /\ file' = IF ok THEN FileEmpty ELSE file
  /\ serr' = [serr EXCEPT ![c] = IF ok THEN NoErr ELSE Err("open", "", 0)]
  /\ spc' = [spc EXCEPT ![c] = IF ok THEN "write" ELSE "ret"]
  /\ UNCHANGED <<ByExt, smuReaders, smuWriter, sarg, sdata, setCalls, got, boot>>

\* os.WriteFile, then: data is written from offset 0 and the file is
\* closed; a failed write leaves part of the document.
WriteFileWrite(c, ok) ==
  /\ spc[c] = "write"
  /\ file' = IF ok THEN FileImage(sdata[c]) ELSE FilePartial
  /\ serr' = [serr EXCEPT ![c] = IF ok THEN NoErr ELSE Err("write", "", 0)]
  /\ spc' = [spc EXCEPT ![c] = "ret"]
  /\ UNCHANGED <<ByExt, smuReaders, smuWriter, sarg, sdata, setCalls, got, boot>>

\* Mutant of SaveReturn: a failed save takes the extension's entry out of
\* the map again.
SaveReturnRollback(c) ==
  /\ spc[c] = "ret"
  /\ smuReaders' = smuReaders \ {c}
  /\ spc' = [spc EXCEPT ![c] = "idle"]
  /\ sarg' = [sarg EXCEPT ![c] = NoArg]
  /\ sdata' = [sdata EXCEPT ![c] = EmptyMap]
  /\ serr' = [serr EXCEPT ![c] = NoErr]
  /\ ByExt' = IF serr[c] = NoErr THEN ByExt
              ELSE [e \in DOMAIN ByExt \ {sarg[c].extension} |-> ByExt[e]]
  /\ UNCHANGED <<file, smuWriter, setCalls, got, boot>>

\* save returns: the deferred RUnlock runs and SetSessionID returns what
\* save returned; the call's arguments and locals are gone.
SaveReturn(c) ==
  /\ spc[c] = "ret"
  /\ smuReaders' = smuReaders \ {c}
  /\ spc' = [spc EXCEPT ![c] = "idle"]
  /\ sarg' = [sarg EXCEPT ![c] = NoArg]
  /\ sdata' = [sdata EXCEPT ![c] = EmptyMap]
  /\ serr' = [serr EXCEPT ![c] = NoErr]
  /\ UNCHANGED <<ByExt, file, smuWriter, setCalls, got, boot>>

\* No goroutine is in SetSessionID or GetSessionID.
Quiescent == (\A c \in Callers : spc[c] = "idle") /\ ~got.called

\* The state file is deleted by hand.
DeleteFile ==
  /\ Quiescent
  /\ file.kind # "absent"
  /\ file' = FileAbsent
  /\ UNCHANGED <<ByExt, smuReaders, smuWriter, spc, sarg, sdata, serr, setCalls, got, boot>>

\* The process is stopped and started again: NewClient calls
\* LoadSessionState on the same path.  When the file is no JSON document
\* LoadSessionState returns an error and the process does not start.
Restart ==
  /\ Quiescent
  /\ file.kind # "partial"
  /\ boot' = file.kind
  /\ ByExt' = LoadSessionState(file).ByExt
  /\ file' = LoadSessionState(file).file
  /\ UNCHANGED <<smuReaders, smuWriter, spc, sarg, sdata, serr, setCalls, got>>

\* The goroutine calling GetSessionID.
Reader == "r1"

\* GetSessionID: s.mu.RLock() and the read of s.ByExt[extension], "" for a
\* missing key.
GetSessionIDRead(extension) ==
  /\ ~got.called
  /\ smuWriter = "none"
  /\ smuReaders' = smuReaders \cup {Reader}
  /\ got' = [extension |-> extension,
             sessionID |-> IF extension \in DOMAIN ByExt THEN ByExt[extension] ELSE "",
             called |-> TRUE]
  /\ UNCHANGED <<ByExt, file, smuWriter, spc, sarg, sdata, serr, setCalls, boot>>

\* GetSessionID returns: the deferred RUnlock runs.
GetSessionIDReturn ==
  /\ got.called
  /\ smuReaders' = smuReaders \ {Reader}
  /\ got' = NoGet
  /\ UNCHANGED <<ByExt, file, smuWriter, spc, sarg, sdata, serr, setCalls, boot>>

----------------------------------------------------------------------------
(* internal/sip stun.go: DiscoverPublicAddress, ResolveContactIfNeeded.    *)

\* A configured string here is Written(text, upper, pad) with a sequence of
\* tokens as its text; ":" is a token of its own.
Str(text) == Written(text, FALSE, FALSE)

defaultSTUNPort == 19302

\* strings.LastIndex for a one-character pattern, 0 when there is none.
LastIndex(s, tok) ==
  IF \E i \in 1..Len(s) : s[i] = tok
    THEN CHOOSE i \in 1..Len(s) : s[i] = tok /\ \A j \in (i + 1)..Len(s) : s[j] # tok
    ELSE 0

\* strconv.Atoi on a sequence of tokens: the number, or -1 for an error.
Atoi(s) ==
  IF s = <<"3478">> THEN 3478
  ELSE IF s = <<"19302">> THEN 19302
  ELSE -1

\* normalizeSTUNAddr: host and port split at the last ":" unless it is the
\* first character; the default port when there is none or it is no number.
normalizeSTUNAddr(srv) ==
  LET idx == LastIndex(srv, ":")
      host == IF idx > 1 THEN Before(srv, idx) ELSE srv
      portStr == IF idx > 1 THEN After(srv, idx) ELSE <<>>
      portNum == IF portStr # <<>> /\ Atoi(portStr) # -1 THEN Atoi(portStr)
                 ELSE defaultSTUNPort
  IN [host |-> host, port |-> portNum]

\* What discoverOne returns: an error, or the mapped address.
ProbeFailed == [ok |-> FALSE, ip |-> "", port |-> 0]
Mapped(ip, port) == [ok |-> TRUE, ip |-> ip, port |-> port]
ProbeOutcomes == {ProbeFailed, Mapped("203.0.113.7", 40000), Mapped("198.51.100.9", 40001)}

NoRet == [ip |-> "", port |-> 0, err |-> Pending]
Ret(ip, port, err) == [ip |-> ip, port |-> port, err |-> err]

\* DiscoverPublicAddress is called with `servers`: the empty list returns
\* at once.
DiscoverCall(servers) ==
  /\ dpc = "idle"
  /\ dServers' = servers
  /\ dIdx' = 1
  /\ IF Len(servers) = 0
       THEN /\ dRet' = Ret("", 0, Err("no STUN servers configured", "", 0))
            /\ dpc' = "returned"
       ELSE /\ dRet' = dRet
            /\ dpc' = "loop"
  /\ UNCHANGED probes

\* The loop: an entry that is empty once trimmed is passed over.
DiscoverSkip ==
  /\ dpc = "loop"
  /\ dIdx <= Len(dServers)
  /\ TrimSpace(dServers[dIdx]).text = <<>>
  /\ dIdx' = dIdx + 1
  /\ UNCHANGED <<dpc, dServers, probes, dRet>>

\* Mutant of DiscoverOne: the loop goes on after a server has answered.
DiscoverOneGoesOn(outcome) ==
  /\ dpc = "loop"
  /\ dIdx <= Len(dServers)
  /\ TrimSpace(dServers[dIdx]).text # <<>>
  /\ probes' = Append(probes,
       [addr |-> normalizeSTUNAddr(TrimSpace(dServers[dIdx]).text), outcome |-> outcome])
  /\ dIdx' = dIdx + 1
  /\ dRet' = IF outcome.ok THEN Ret(outcome.ip, outcome.port, NoErr) ELSE dRet
  /\ dpc' = IF outcome.ok /\ dIdx = Len(dServers) THEN "returned" ELSE "loop"
  /\ UNCHANGED dServers

\* The loop: discoverOne on the normalized address; its failure goes on to
\* the next entry, its answer is returned.
DiscoverOne(outcome) ==
  /\ dpc = "loop"
  /\ dIdx <= Len(dServers)
  /\ TrimSpace(dServers[dIdx]).text # <<>>
  /\ probes' = Append(probes,
       [addr |-> normalizeSTUNAddr(TrimSpace(dServers[dIdx]).text), outcome |-> outcome])
  /\ IF outcome.ok
       THEN /\ dRet' = Ret(outcome.ip, outcome.port, NoErr)
            /\ dpc' = "returned"
            /\ dIdx' = dIdx
       ELSE /\ dRet' = dRet
            /\ dpc' = "loop"
            /\ dIdx' = dIdx + 1
  /\ UNCHANGED dServers

\* The loop is over without an answer.
DiscoverFail ==
  /\ dpc = "loop"
  /\ dIdx > Len(dServers)
  /\ dRet' = Ret("", 0, Err("all STUN servers failed", "", 0))
  /\ dpc' = "returned"
  /\ UNCHANGED <<dIdx, dServers, probes>>

\* IsContactSentinel: the trimmed, lower-cased value is empty, auto or stun.
IsContactSentinel(contactIP) ==
  TrimSpace(ToLower(contactIP)) \in {Str(<<>>), Str(<<"auto">>), Str(<<"stun">>)}

\* Mutant of NeedsDiscovery: discovery is always needed.
NeedsDiscoveryAlways(contactIP) == TRUE

\* ResolveContactIfNeeded's test.
NeedsDiscovery(contactIP) == IsContactSentinel(contactIP)

\* ResolveContactIfNeeded up to the call of DiscoverPublicAddress.
ResolveCall ==
  /\ rpc = "idle"
  /\ dpc = "idle"
  /\ IF ~NeedsDiscovery(cfg.ContactIP)
       THEN /\ rErr' = NoErr
            /\ rpc' = "returned"
            /\ UNCHANGED <<dpc, dIdx, dServers, probes, dRet>>
       ELSE IF Len(cfg.STUNServers) = 0
         THEN /\ rErr' = Err("STUN requested but no STUN_SERVERS configured", "", 0)
              /\ rpc' = "returned"
              /\ UNCHANGED <<dpc, dIdx, dServers, probes, dRet>>
         ELSE /\ DiscoverCall(cfg.STUNServers)
              /\ rpc' = "discover"
              /\ rErr' = rErr
  /\ UNCHANGED cfg

\* ResolveContactIfNeeded once DiscoverPublicAddress has returned.
ResolveReturn ==
  /\ rpc = "discover"
  /\ dpc = "returned"
  /\ rErr' = dRet.err
  /\ cfg' = IF dRet.err # NoErr THEN cfg
            ELSE [cfg EXCEPT !.ContactIP = Str(<<dRet.ip>>), !.ContactPort = dRet.port]
  /\ rpc' = "returned"
  /\ UNCHANGED <<dpc, dIdx, dServers, probes, dRet>>

\* The configuration main builds (main.go:71-79) and the functions not yet
\* called.
Config(contactIP, contactPort, servers) ==
  [ContactIP |-> contactIP, ContactPort |-> contactPort, STUNServers |-> servers]

InitStun(c) ==
  /\ cfg = c
  /\ rpc = "idle"
  /\ dpc = "idle"
  /\ dIdx = 1
  /\ dServers = <<>>
  /\ probes = <<>>
  /\ dRet = NoRet
  /\ rErr = Pending

\* main with a fixed contact address: no resolution.
InitContact == InitStun(Config(Str(<<"127.0.0.1">>), 0, <<>>))

----------------------------------------------------------------------------
(* cmd/sip-blf-sync: loading the extension list at start-up.               *)

\* A path is its stem and its suffix; a directory is what it holds for each
\* suffix of one stem.
Suffixes == {".json", ".csv", ".txt"}
Path(stem, suffix) == [stem |-> stem, suffix |-> suffix]
HasSuffix(path, suffix) == path.suffix = suffix
TrimSuffix(path, suffix) == IF path.suffix = suffix THEN [path EXCEPT !.suffix = ""] ELSE path
WithCsv(path) == [path EXCEPT !.suffix = ".csv"]

\* A file: missing; a JSON array of entries; CSV rows; or bytes that are
\* neither.
Missing == [kind |-> "missing", entries |-> <<>>, rows |-> <<>>]
JsonFile(entries) == [kind |-> "json", entries |-> entries, rows |-> <<>>]
CsvFile(rows) == [kind |-> "csv", entries |-> <<>>, rows |-> rows]
Garbage == [kind |-> "garbage", entries |-> <<>>, rows |-> <<>>]

ExtensionEntry(extension, email) == [Extension |-> extension, Email |-> email]

Loaded(list, path, err) == [list |-> list, path |-> path, err |-> err]
NoPath == Path("", "")

\* os.Stat(path) returns nil.
Exists(dir, path) == path.suffix \in DOMAIN dir /\ dir[path.suffix].kind # "missing"

\* loadExtensions: os.ReadFile, then json.Unmarshal into the list.
loadExtensions(dir, path) ==
  IF ~Exists(dir, path) THEN Loaded(<<>>, path, Err("file does not exist", "", 0))
  ELSE IF dir[path.suffix].kind # "json" THEN Loaded(<<>>, path, Err("unmarshal", "", 0))
  ELSE Loaded(dir[path.suffix].entries, path, NoErr)

\* strings.EqualFold of a configured string with a word in lower case.
EqualFold(t, word) == ~t.pad /\ t.text = word

\* loadExtensionsCSV's loop over the records: short rows and rows of two
\* empty fields are passed over, as is a first row "extension,email".
RECURSIVE CsvRows(_, _)
CsvRows(rows, i) ==
  IF i > Len(rows) THEN <<>>
  ELSE LET rec == rows[i]
           rest == CsvRows(rows, i + 1)
       IN IF Len(rec) < 2 THEN rest
          ELSE LET ext == TrimSpace(rec[1])
                   email == TrimSpace(rec[2])
               IN IF ext.text = "" /\ email.text = "" THEN rest
                  ELSE IF i = 1 /\ EqualFold(ext, "extension") /\ EqualFold(email, "email")
                    THEN rest
                    ELSE <<ExtensionEntry(ext, email)>> \o rest

\* loadExtensionsCSV: os.Open, csv.ReadAll, the loop.
loadExtensionsCSV(dir, path) ==
  IF ~Exists(dir, path) THEN Loaded(<<>>, path, Err("file does not exist", "", 0))
  ELSE IF dir[path.suffix].kind # "csv" THEN Loaded(<<>>, path, Err("csv", "", 0))
  ELSE Loaded(CsvRows(dir[path.suffix].rows, 1), path, NoErr)

\* loadExtensionsFromPath: the path when it exists, else for a .json path
\* the .csv path beside it.
loadExtensionsFromPath(dir, path) ==
  IF Exists(dir, path)
    THEN IF HasSuffix(path, ".csv") THEN loadExtensionsCSV(dir, path)
         ELSE loadExtensions(dir, path)
  ELSE IF HasSuffix(path, ".json")
    THEN IF Exists(dir, WithCsv(path))
           THEN loadExtensionsCSV(dir, WithCsv(path))
           ELSE Loaded(<<>>, NoPath, Err("extensions file not found: tried both", "", 0))
    ELSE Loaded(<<>>, NoPath, Err("extensions file not found", "", 0))

\* Mutant of StartupLoad: main loads through loadExtensionsFromPath.
StartupLoadFromPath(dir, path) == loadExtensionsFromPath(dir, path)

\* main.go:25: the call main makes to load the list.
StartupLoad(dir, path) == loadExtensions(dir, path)

\* main: the list is loaded, or the process exits.
MainLoadExtensions ==
  /\ lpc = "start"
  /\ lRet' = StartupLoad(lDir, lPath)
  /\ lpc' = IF StartupLoad(lDir, lPath).err # NoErr THEN "exited" ELSE "loaded"
  /\ UNCHANGED <<lDir, lPath>>

\* loadExtensionsFromPath called on the same path.
CallLoadExtensionsFromPath ==
  /\ lpc = "start"
  /\ lRet' = loadExtensionsFromPath(lDir, lPath)
  /\ lpc' = "called"
  /\ UNCHANGED <<lDir, lPath>>

InitLoad(dir, path) ==
  /\ lDir = dir
  /\ lPath = path
  /\ lpc = "start"
  /\ lRet = Loaded(<<>>, NoPath, Pending)

\* main with its extension list loaded.
InitLoadedExtensions ==
  /\ lDir = [x \in {".json"} |-> JsonFile(<<>>)]
  /\ lPath = Path("config/extensions", ".json")
  /\ lpc = "loaded"
  /\ lRet = Loaded(<<>>, lPath, NoErr)

----------------------------------------------------------------------------
(* The blf functions called on one body.                                   *)

CallParseDialogInfo ==
  /\ pCall = "none"
  /\ pCall' = "ParseDialogInfo"
  /\ pResult' = ParseDialogInfo(pBody)
  /\ UNCHANGED pBody

CallExtensionFromDialogInfo ==
  /\ pCall = "none"
  /\ pCall' = "ExtensionFromDialogInfo"
  /\ pResult' = ExtensionFromDialogInfo(pBody)
  /\ UNCHANGED pBody

CallParsePresenceBody ==
  /\ pCall = "none"
  /\ pCall' = "ParsePresenceBody"
  /\ pResult' = ParsePresenceBody(pBody)
  /\ UNCHANGED pBody

\* State.ToGraph called on a State value.
CallToGraph(s) ==
  /\ pCall = "none"
  /\ pCall' = "ToGraph"
  /\ pResult' = [state |-> s, pair |-> ToGraph(s)]
  /\ UNCHANGED pBody

----------------------------------------------------------------------------
(* Inputs.                                                                 *)

\* Values of type State: the four constants, and strings that are none of
\* them.
StateValues == {StateIdle, StateRinging, StateBusy, StateUnknown, "", "held"}

ExtensionLists == UNION {[1..n -> ExtIds] : n \in 0..MaxExt}

SeqsUpTo(n, S) == UNION {[1..k -> S] : k \in 0..n}

Blank == Written("", FALSE, TRUE)

\* <dialog> elements: the state as <state> text in every spelling, as an
\* attribute only, and as both.
DialogKinds ==
  {DialogElem(s, NoText, EmptyStr) :
     s \in {NoText, Blank, Tok("terminated"), Written("terminated", TRUE, TRUE),
            Tok("trying"), Tok("early"), Tok("proceeding"), Tok("confirmed"),
            Written("confirmed", TRUE, FALSE), Tok("held")}}
  \cup {DialogElem(NoText, Tok("terminated"), EmptyStr),
        DialogElem(NoText, Written("confirmed", TRUE, FALSE), EmptyStr),
        DialogElem(Blank, Written("early", FALSE, TRUE), EmptyStr),
        DialogElem(Tok("terminated"), Tok("confirmed"), EmptyStr),
        DialogElem(Tok("confirmed"), Tok("terminated"), EmptyStr)}

Namespaces == {RfcNamespace, ""}

Uri1001 == <<"sip", ":", "1001", "@", "pbx">>
Uri2404 == <<"sip", ":", "2404", "@", "pbx">>

\* dialog-info documents that differ in their dialogs' states.
StateDocs(n, kinds) ==
  {XmlBody("dialog-info", ns, Uri1001, ds, {}) :
     ns \in Namespaces, ds \in SeqsUpTo(n, kinds)}

\* Entity attributes: none, a full URI, the URI of an extension that is not
\* configured, a URI without host, a URI without scheme.
EntityValues ==
  {EmptyStr, Uri1001, <<"sip", ":", "3000", "@", "pbx">>, <<"sip", ":", "2404">>,
   <<"1001", "@", "pbx">>}

IdentityValues == {EmptyStr, Uri2404, <<"2404">>}

\* dialog-info documents that differ in where the extension can be found.
IdentDocs ==
  {XmlBody("dialog-info", ns, e, ds, {}) :
     ns \in Namespaces, e \in EntityValues,
     ds \in {<<>>} \cup {<<DialogElem(Tok("confirmed"), NoText, i)>> : i \in IdentityValues}}

\* Bodies that are no dialog-info document: arbitrary bytes, and XML with
\* another root (a PIDF presence document).
OtherBodies ==
  {TextBody(w) : w \in SUBSET {"dialog-info", "open", "closed"}}
  \cup {XmlBody("presence", "urn:ietf:params:xml:ns:pidf", Uri1001, <<>>, w) :
          w \in SUBSET {"open", "closed"}}

Bodies ==
  {EmptyBody} \cup OtherBodies \cup IdentDocs \cup StateDocs(MaxDialogs, DialogKinds)

\* Bodies of notifications: every body that is no dialog-info document,
\* every place an extension can be found in, and documents of extension
\* 1001 with no dialog or one.
NotifyBodies ==
  {EmptyBody} \cup OtherBodies \cup IdentDocs
    \cup StateDocs(1, {DialogElem(s, NoText, EmptyStr) :
                         s \in {Tok("terminated"), Tok("early"), Tok("confirmed")}})

\* Bodies that name no extension the namespaced schema can find.
AnonymousBodies ==
  {EmptyBody} \cup OtherBodies
    \cup {XmlBody("dialog-info", ns, EmptyStr, <<DialogElem(Tok("confirmed"), NoText, EmptyStr)>>, {}) :
            ns \in Namespaces}
    \cup {XmlBody("dialog-info", "", Uri1001, <<DialogElem(Tok("early"), NoText, EmptyStr)>>, {})}

ToValues ==
  {NoHeader,
   Header(<<"<", "sip", ":", "1001", "@", "pbx", ">", ";", "tag=1">>),
   Header(<<"sip", ":", "2404", "@", "pbx">>),
   Header(<<"<", "sip", ":", "pbx", ">">>)}

\* Notifications: every body without To header, and the bodies that name no
\* extension with every To header.
Notifies ==
  {Notify(b, NoHeader) : b \in NotifyBodies}
  \cup {Notify(b, t) : b \in AnonymousBodies, t \in ToValues}

LookupResults == LookupFailures \cup {LookupResult("ok", id) : id \in ObjectIds}

\* The directory's answers to the single handler: a failure, or an id.
DispatchLookupResults ==
  {LookupResult("error", "")} \cup {LookupResult("ok", id) : id \in ObjectIds}

\* The notifications of the concurrent specification: one confirmed and one
\* terminated dialog of extension 1001, one confirmed dialog of 2404.
Doc(uri, state) ==
  XmlBody("dialog-info", RfcNamespace, uri, <<DialogElem(Tok(state), NoText, EmptyStr)>>, {})
FewNotifies ==
  {Notify(Doc(Uri1001, "confirmed"), NoHeader), Notify(Doc(Uri1001, "terminated"), NoHeader),
   Notify(Doc(Uri2404, "confirmed"), NoHeader)}

----------------------------------------------------------------------------
(* Specifications.                                                         *)

\* The main goroutine before Register, with the extension list `exts`.
InitSip(exts) ==
  /\ extensions = exts
  /\ pc = "register"
  /\ subIdx = 1
  /\ failed = <<>>
  /\ sent = <<>>
  /\ regReplies = <<>>
  /\ regErr = Pending
  /\ subErr = Pending
  /\ subFailed = <<>>
  /\ lastSubErr = Pending
  /\ cancelAt = -1

\* The main goroutine at the start of main, the contact address resolved.
InitMain(exts) == InitSip(exts) /\ InitContact /\ InitLoadedExtensions

\* The SIP server and the graph client after construction: no notification
\* yet, an empty cache.
InitHandlers ==
  /\ received = 0
  /\ hpc = [h \in Handlers |-> "idle"]
  /\ hreq = [h \in Handlers |-> NoRequest]
  /\ htrace = [h \in Handlers |-> <<>>]
  /\ hcall = [h \in Handlers |-> NoCall]
  /\ userIDCache = <<>>
  /\ readers = {}
  /\ writer = "none"
  /\ calls = <<>>
  /\ posts = <<>>

\* No notification has been handled.
InitHistory ==
  /\ handled = <<>>
  /\ lastSet = [e \in {} |-> ""]
  /\ allOk = TRUE
  /\ lastStep = [op |-> "none"]

InitParser(bodies) ==
  /\ pBody \in bodies
  /\ pCall = "none"
  /\ pResult = ""

\* main: Register, then Subscribe.
InitSession ==
  /\ \E exts \in ExtensionLists : InitMain(exts)
  /\ InitHandlers
  /\ InitParser({EmptyBody})
  /\ InitHistory
  /\ InitState

NextSession ==
  /\ \/ \E out \in TxOutcomes : RegisterSend(out)
     \/ \E reply \in Replies : RegisterFirstResponse(reply)
     \/ \E out \in TxOutcomes : RegisterResend(out)
     \/ \E reply \in Replies : RegisterSecondResponse(reply)
     \/ \E out \in TxOutcomes : SubscribeSend(out)
     \/ \E reply \in Replies : SubscribeFirstResponse(reply)
     \/ \E out \in TxOutcomes : SubscribeResend(out)
     \/ \E reply \in Replies : SubscribeSecondResponse(reply)
     \/ SubscribeReturn
  /\ UNCHANGED <<handlerVars, parserVars, signalVars, stunVars, loadVars, historyVars, stateVars>>

SpecSession == InitSession /\ [][NextSession]_vars

\* Every transaction yields a reply or dies, and TransactionRequest returns:
\* the main goroutine is never blocked for ever.
FairSession == SpecSession /\ WF_vars(NextSession)

\* One handler: notifications are handled one after the other.
InitDispatch ==
  /\ InitMain(<<"1001", "2404">>)
  /\ InitHandlers
  /\ InitParser({EmptyBody})
  /\ InitHistory
  /\ InitState

HandlerStep(h, lookupResults) ==
  \/ NotifyProcess(h)
  \/ ResolveRLock(h)
  \/ ResolveCheck(h)
  \/ \E result \in lookupResults : ResolveLookup(h, result)
  \/ ResolveWLock(h)
  \/ ResolveStore(h)
  \/ \E ok \in BOOLEAN : PresencePost(h, ok)

NextDispatch ==
  /\ \/ \E req \in Notifies, ok \in BOOLEAN : NotifyReceive("h1", req, ok)
     \/ HandlerStep("h1", DispatchLookupResults)
  /\ UNCHANGED <<sessionVars, parserVars, signalVars, stunVars, loadVars, historyVars, stateVars>>

SpecDispatch == InitDispatch /\ [][NextDispatch]_vars

\* The handler goroutine is scheduled: once the 200 OK is sent, the rest of
\* handleNOTIFY runs.
FairDispatch ==
  SpecDispatch /\ WF_vars(NotifyProcess("h1") /\ UNCHANGED <<sessionVars, parserVars, signalVars, stunVars, loadVars, historyVars, stateVars>>)

\* Several handlers: notifications are handled concurrently.
NextConcurrent ==
  /\ \E h \in Handlers :
       \/ \E req \in FewNotifies, ok \in BOOLEAN : NotifyReceive(h, req, ok)
       \/ HandlerStep(h, LookupResults)
  /\ UNCHANGED <<sessionVars, parserVars, signalVars, stunVars, loadVars, historyVars, stateVars>>

SpecConcurrent == InitDispatch /\ [][NextConcurrent]_vars

\* Several handlers, with the history of the notifications in the order
\* they were received: here `handled` holds a record for every notification
\* taken, the one taken last at the end.
Receipt(h, req) == [h |-> h, req |-> req]

\* The notifications of this specification: a confirmed and a terminated
\* dialog of extension 1001; the directory fails or answers guid-1.
OrderNotifies ==
  {Notify(Doc(Uri1001, "confirmed"), NoHeader), Notify(Doc(Uri1001, "terminated"), NoHeader)}
OrderLookupResults == {LookupResult("error", ""), LookupResult("ok", "guid-1")}

NextOrder ==
  /\ \E h \in Handlers :
       \/ \E req \in OrderNotifies, ok \in BOOLEAN :
            /\ NotifyReceive(h, req, ok)
            /\ handled' = Append(handled, Receipt(h, req))
       \/ /\ HandlerStep(h, OrderLookupResults)
          /\ UNCHANGED handled
  /\ UNCHANGED <<sessionVars, parserVars, signalVars, stunVars, loadVars, stateVars,
                 lastSet, allOk, lastStep>>

SpecOrder == InitDispatch /\ [][NextOrder]_vars

\* The notifications of the pipeline specification: a confirmed and a
\* terminated dialog of every extension.
UriOf(e) == <<"sip", ":", e, "@", "pbx">>
PipelineNotifies ==
  {Notify(Doc(UriOf(e), state), NoHeader) :
     e \in ExtIds, state \in {"confirmed", "terminated"}}

\* What is kept of a notification once its handler takes the next one.
HandledRecord(h) == [req |-> hreq[h], trace |-> htrace[h]]

\* One handler on a few notifications, with the history of the
\* notifications it has handled.
NextPipeline ==
  /\ \/ /\ \E req \in PipelineNotifies, ok \in BOOLEAN : NotifyReceive("h1", req, ok)
        /\ handled' = IF hreq["h1"] = NoRequest
                         THEN handled
                         ELSE Append(handled, HandledRecord("h1"))
     \/ /\ HandlerStep("h1", DispatchLookupResults)
        /\ UNCHANGED handled
  /\ UNCHANGED <<sessionVars, parserVars, signalVars, stunVars, loadVars, stateVars, lastSet, allOk, lastStep>>

SpecPipeline == InitDispatch /\ [][NextPipeline]_vars

\* The whole process: main registers and subscribes while the listener
\* goroutine, started before Register, handles notifications; os.Exit ends
\* both.
ProcessReplies ==
  {Died, Response(200, "absent"), Response(401, "valid"), Response(404, "absent")}

ProcessNotifies ==
  {Notify(Doc(UriOf(e), "confirmed"), NoHeader) : e \in ExtIds}

NextProcess ==
  \/ /\ \/ \E out \in TxOutcomes : RegisterSend(out)
        \/ \E reply \in ProcessReplies : RegisterFirstResponse(reply)
        \/ \E out \in TxOutcomes : RegisterResend(out)
        \/ \E reply \in ProcessReplies : RegisterSecondResponse(reply)
        \/ \E out \in TxOutcomes : SubscribeSend(out)
        \/ \E reply \in ProcessReplies : SubscribeFirstResponse(reply)
        \/ \E out \in TxOutcomes : SubscribeResend(out)
        \/ \E reply \in ProcessReplies : SubscribeSecondResponse(reply)
        \/ SubscribeReturn
     /\ UNCHANGED <<handlerVars, parserVars, signalVars, stunVars, loadVars, historyVars, stateVars>>
  \/ /\ pc # "exited"
     /\ \/ \E req \in ProcessNotifies, ok \in BOOLEAN : NotifyReceive("h1", req, ok)
        \/ HandlerStep("h1", {LookupResult("error", ""), LookupResult("ok", "guid-1")})
     /\ UNCHANGED <<sessionVars, parserVars, signalVars, stunVars, loadVars, historyVars, stateVars>>

SpecProcess == InitDispatch /\ [][NextProcess]_vars

\* What is kept of a reply: the function that took it (`which` is 1 for the
\* reply to the first request, 2 for the reply to the resend), the number of
\* requests sent by then, and the error the function returned for it,
\* Pending when it went on to the resend.
StepRecord(op, which, reply, err) ==
  [op |-> op, which |-> which, at |-> Len(sent), reply |-> reply, err |-> err]

\* Register and Subscribe with the history of the last reply taken.
NextChallenge ==
  /\ \/ /\ \/ \E out \in TxOutcomes : RegisterSend(out)
           \/ \E out \in TxOutcomes : RegisterResend(out)
           \/ \E out \in TxOutcomes : SubscribeSend(out)
           \/ \E out \in TxOutcomes : SubscribeResend(out)
           \/ SubscribeReturn
        /\ UNCHANGED lastStep
     \/ \E reply \in Replies :
          /\ RegisterFirstResponse(reply)
          /\ lastStep' = StepRecord("Register", 1, reply,
                                    IF pc' = "reg_resend" THEN Pending ELSE regErr')
     \/ \E reply \in Replies :
          /\ RegisterSecondResponse(reply)
          /\ lastStep' = StepRecord("Register", 2, reply, regErr')
     \/ \E reply \in Replies :
          /\ SubscribeFirstResponse(reply)
          /\ lastStep' = StepRecord("subscribeOne", 1, reply,
                                    IF pc' = "sub_resend" THEN Pending ELSE lastSubErr')
     \/ \E reply \in Replies :
          /\ SubscribeSecondResponse(reply)
          /\ lastStep' = StepRecord("subscribeOne", 2, reply, lastSubErr')
  /\ UNCHANGED <<handlerVars, parserVars, signalVars, stunVars, loadVars, stateVars, handled, lastSet, allOk>>

SpecChallenge == InitDispatch /\ [][NextChallenge]_vars

\* What is kept of an extension's attempt once subscribeOne has returned:
\* the last thing the transaction layer gave it, the error it returned, and
\* what Subscribe logged.
NoResponse == [kind |-> "no response"]
AttemptRecord(last) ==
  IF subIdx' = subIdx THEN lastStep
  ELSE [op |-> "Subscribe", idx |-> subIdx, ext |-> extensions[subIdx], last |-> last,
        err |-> lastSubErr', level |-> SubscribeLog(lastSubErr')]

\* Register and Subscribe with the history of the last attempt's outcome.
NextClassify ==
  /\ \/ /\ \/ \E out \in TxOutcomes : RegisterSend(out)
           \/ \E reply \in Replies : RegisterFirstResponse(reply)
           \/ \E out \in TxOutcomes : RegisterResend(out)
           \/ \E reply \in Replies : RegisterSecondResponse(reply)
           \/ SubscribeReturn
        /\ UNCHANGED lastStep
     \/ \E out \in TxOutcomes :
          /\ SubscribeSend(out)
          /\ lastStep' = AttemptRecord(NoResponse)
     \/ \E reply \in Replies :
          /\ SubscribeFirstResponse(reply)
          /\ lastStep' = AttemptRecord(reply)
     \/ \E out \in TxOutcomes :
          /\ SubscribeResend(out)
          /\ lastStep' = AttemptRecord(NoResponse)
     \/ \E reply \in Replies :
          /\ SubscribeSecondResponse(reply)
          /\ lastStep' = AttemptRecord(reply)
  /\ UNCHANGED <<handlerVars, parserVars, signalVars, stunVars, loadVars, stateVars, handled, lastSet, allOk>>

SpecClassify == InitDispatch /\ [][NextClassify]_vars

\* The events of one transaction: up to MaxEvents responses, or fewer and
\* then its termination.
MaxEvents == 2
EventReplies ==
  {Response(100, "absent"), Response(200, "absent"), Response(202, "absent"),
   Response(401, "valid"), Response(404, "absent")}
EventSeqs ==
  {ev \in SeqsUpTo(MaxEvents, EventReplies \cup {Died}) :
     /\ ev # <<>>
     /\ \A i \in 1..(Len(ev) - 1) : ev[i] # Died}

\* What is kept of a transaction: the function that read it, all its
\* events, and the error the function returned, Pending when it went on to
\* the resend.
EventsRecord(op, which, events, err) ==
  [op |-> op, which |-> which, at |-> Len(sent), events |-> events, err |-> err,
   ext |-> IF op = "Register" THEN "" ELSE extensions[subIdx]]

\* Register and Subscribe on transactions that may deliver several
\* responses, with the history of the last transaction read.
NextFirstReply ==
  /\ \/ /\ \/ \E out \in TxOutcomes : RegisterSend(out)
           \/ \E out \in TxOutcomes : RegisterResend(out)
           \/ \E out \in TxOutcomes : SubscribeSend(out)
           \/ \E out \in TxOutcomes : SubscribeResend(out)
           \/ SubscribeReturn
        /\ UNCHANGED lastStep
     \/ \E events \in EventSeqs :
          /\ RegisterFirstResponse(Delivered(events))
          /\ lastStep' = EventsRecord("Register", 1, events,
                                      IF pc' = "reg_resend" THEN Pending ELSE regErr')
     \/ \E events \in EventSeqs :
          /\ RegisterSecondResponse(Delivered(events))
          /\ lastStep' = EventsRecord("Register", 2, events, regErr')
     \/ \E events \in EventSeqs :
          /\ SubscribeFirstResponse(Delivered(events))
          /\ lastStep' = EventsRecord("subscribeOne", 1, events,
                                      IF pc' = "sub_resend" THEN Pending ELSE lastSubErr')
     \/ \E events \in EventSeqs :
          /\ SubscribeSecondResponse(Delivered(events))
          /\ lastStep' = EventsRecord("subscribeOne", 2, events, lastSubErr')
  /\ UNCHANGED <<handlerVars, parserVars, signalVars, stunVars, loadVars, stateVars, handled, lastSet, allOk>>

SpecFirstReply == InitDispatch /\ [][NextFirstReply]_vars

\* Register and Subscribe with a signal arriving at any moment.  Neither
\* function reads ctx; it is passed to TransactionRequest, which opens the
\* transaction or returns an error as before.
NextCancel ==
  \/ /\ \/ \E out \in TxOutcomes : RegisterSend(out)
        \/ \E reply \in ProcessReplies : RegisterFirstResponse(reply)
        \/ \E out \in TxOutcomes : RegisterResend(out)
        \/ \E reply \in ProcessReplies : RegisterSecondResponse(reply)
        \/ \E out \in TxOutcomes : SubscribeSend(out)
        \/ \E reply \in ProcessReplies : SubscribeFirstResponse(reply)
        \/ \E out \in TxOutcomes : SubscribeResend(out)
        \/ \E reply \in ProcessReplies : SubscribeSecondResponse(reply)
        \/ SubscribeReturn
     /\ UNCHANGED <<handlerVars, parserVars, historyVars, stateVars, signalVars, stunVars, loadVars>>
  \/ /\ Signal
     /\ UNCHANGED <<handlerVars, parserVars, historyVars, stateVars, stunVars, loadVars>>
  \/ /\ MainShutdown
     /\ UNCHANGED <<handlerVars, parserVars, historyVars, stateVars, stunVars, loadVars>>

SpecCancel == InitDispatch /\ [][NextCancel]_vars

\* The lists of STUN servers: a host, a host with a port and white space
\* around it, and an entry of white space only.
ServerValues ==
  {Str(<<"stun1">>), Written(<<"stun2", ":", "3478">>, FALSE, TRUE), Written(<<>>, FALSE, TRUE)}
ServerLists == SeqsUpTo(MaxServers, ServerValues)

\* The values of SIP_CONTACT_IP: the sentinels in several spellings, and
\* addresses.
ContactValues ==
  {Str(<<>>), Written(<<>>, FALSE, TRUE), Str(<<"auto">>), Written(<<"auto">>, TRUE, TRUE),
   Written(<<"stun">>, TRUE, FALSE), Str(<<"10.0.0.5">>), Written(<<"10.0.0.5">>, FALSE, TRUE),
   Str(<<"autostun">>)}
Configs ==
  {Config(ip, port, servers) : ip \in ContactValues, port \in {0, 5070}, servers \in ServerLists}

InitRest ==
  /\ InitSip(<<"1001", "2404">>)
  /\ InitLoadedExtensions
  /\ InitHandlers
  /\ InitParser({EmptyBody})
  /\ InitHistory
  /\ InitState

DiscoverStep ==
  \/ DiscoverSkip
  \/ \E outcome \in ProbeOutcomes : DiscoverOne(outcome)
  \/ DiscoverFail

\* DiscoverPublicAddress called on any list.
NextDiscover ==
  /\ \/ \E servers \in ServerLists : DiscoverCall(servers)
     \/ DiscoverStep
  /\ UNCHANGED <<cfg, rpc, rErr>>
  /\ UNCHANGED <<sessionVars, handlerVars, parserVars, historyVars, stateVars, signalVars, loadVars>>

InitDiscover == InitRest /\ InitContact

SpecDiscover == InitDiscover /\ [][NextDiscover]_vars

\* ResolveContactIfNeeded called on any configuration.
NextResolve ==
  /\ \/ ResolveCall
     \/ DiscoverStep /\ UNCHANGED <<cfg, rpc, rErr>>
     \/ ResolveReturn
  /\ UNCHANGED <<sessionVars, handlerVars, parserVars, historyVars, stateVars, signalVars, loadVars>>

InitResolve == InitRest /\ \E c \in Configs : InitStun(c)

SpecResolve == InitResolve /\ [][NextResolve]_vars

\* Start-up on any directory and path.
MaxRows == 2
CsvRowValues ==
  {<<Str("1001"), Written("alice@example.com", FALSE, TRUE)>>,
   <<Written("extension", TRUE, TRUE), Str("email")>>,
   <<Str(""), Written("", FALSE, TRUE)>>,
   <<Str("2404")>>}
FileValues ==
  {Missing, Garbage, JsonFile(<<>>),
   JsonFile(<<ExtensionEntry(Str("1001"), Str("alice@example.com"))>>)}
    \cup {CsvFile(rows) : rows \in SeqsUpTo(MaxRows, CsvRowValues)}
OtherFileValues ==
  {Missing, Garbage, JsonFile(<<>>),
   CsvFile(<<<<Str("1001"), Written("alice@example.com", FALSE, TRUE)>>>>)}
Directories ==
  {dir \in [Suffixes -> FileValues] :
     dir[".json"] \in OtherFileValues /\ dir[".txt"] \in OtherFileValues}

NextStartup ==
  /\ \/ MainLoadExtensions
     \/ CallLoadExtensionsFromPath
  /\ UNCHANGED <<sessionVars, handlerVars, parserVars, historyVars, stateVars, signalVars,
                 stunVars>>

InitStartup ==
  /\ InitSip(<<"1001", "2404">>) /\ InitContact
  /\ InitHandlers /\ InitParser({EmptyBody}) /\ InitHistory /\ InitState
  /\ \E dir \in Directories, suffix \in Suffixes :
       InitLoad(dir, Path("config/extensions", suffix))

SpecStartup == InitStartup /\ [][NextStartup]_vars

\* The publish path after any start: one handler on the notifications of
\* the pipeline, with the session state NewClient loaded.
InitPublish ==
  /\ InitMain(<<"1001", "2404">>)
  /\ InitHandlers
  /\ InitParser({EmptyBody})
  /\ InitHistory
  /\ InitLoaded

SpecPublish == InitPublish /\ [][NextPipeline]_vars

\* Goroutines calling SetSessionID concurrently.
CallerStep(c, ids) ==
  \/ \E e \in ExtIds, id \in ids : SetSessionIDCall(c, e, id)
  \/ SetSessionIDLock(c)
  \/ SetSessionIDStore(c)
  \/ SaveRLock(c)
  \/ \E ok \in BOOLEAN : SaveMarshal(c, ok)
  \/ \E ok \in BOOLEAN : WriteFileOpen(c, ok)
  \/ \E ok \in BOOLEAN : WriteFileWrite(c, ok)
  \/ SaveReturn(c)

NextState ==
  /\ \E c \in Callers : CallerStep(c, Tokens)
  /\ UNCHANGED <<sessionVars, handlerVars, parserVars, signalVars, stunVars, loadVars, historyVars>>

InitStateSpec ==
  /\ InitMain(<<"1001", "2404">>)
  /\ InitHandlers
  /\ InitParser({EmptyBody})
  /\ InitHistory
  /\ InitLoaded

SpecState == InitStateSpec /\ [][NextState]_vars

\* GetSessionID called while goroutines call SetSessionID, on a first start.
InitStale ==
  /\ InitMain(<<"1001", "2404">>)
  /\ InitHandlers
  /\ InitParser({EmptyBody})
  /\ InitHistory
  /\ InitState

NextStale ==
  \/ NextState
  \/ /\ \/ \E e \in ExtIds : GetSessionIDRead(e)
        \/ GetSessionIDReturn
     /\ UNCHANGED <<sessionVars, handlerVars, parserVars, signalVars, stunVars, loadVars, historyVars>>

SpecStale == InitStale /\ [][NextStale]_vars

\* The state file holds the session id for the extension.
FileHolds(f, extension, sessionID) ==
  /\ f.kind = "image"
  /\ extension \in DOMAIN f.image
  /\ f.image[extension] = sessionID

\* What is kept of a caller's SetSessionID call: its arguments; whether the
\* file held the pair when the call began or after a step of another
\* goroutine since; and, once it has returned, the error it returned and, of
\* that moment, whether the map has the pair, whether the file has it, and
\* whether the file is the document of the map.
NoAttempt ==
  [phase |-> "none", extension |-> "", sessionID |-> "", held |-> FALSE,
   err |-> Pending, inMap |-> FALSE, keyInMap |-> FALSE, onFile |-> FALSE,
   saved |-> FALSE]

AttemptOf(c, stepOf) ==
  LET rec == lastStep[c] IN
    IF stepOf = c /\ spc[c] = "idle"
      THEN [NoAttempt EXCEPT !.phase = "running",
                             !.extension = sarg'[c].extension,
                             !.sessionID = sarg'[c].sessionID,
                             !.held = FileHolds(file, sarg'[c].extension, sarg'[c].sessionID)]
    ELSE IF stepOf = c /\ spc[c] = "ret"
      THEN [rec EXCEPT !.phase = "returned", !.err = serr[c],
                       !.keyInMap = rec.extension \in DOMAIN ByExt',
                       !.inMap = /\ rec.extension \in DOMAIN ByExt'
                                 /\ ByExt'[rec.extension] = rec.sessionID,
                       !.onFile = FileHolds(file', rec.extension, rec.sessionID),
                       !.saved = (file' = FileImage(MarshalIndent(ByExt')))]
    ELSE IF stepOf # c /\ rec.phase = "running"
      THEN [rec EXCEPT !.held = @ \/ FileHolds(file', rec.extension, rec.sessionID)]
    ELSE rec

\* SetSessionID and GetSessionID called concurrently on a first start, any
\* step of save failing, with the history of each caller's last call.
InitPersist ==
  /\ InitMain(<<"1001", "2404">>)
  /\ InitHandlers
  /\ InitParser({EmptyBody})
  /\ handled = <<>>
  /\ lastSet = EmptyMap
  /\ allOk = TRUE
  /\ lastStep = [c \in Callers |-> NoAttempt]
  /\ InitState

NextPersist ==
  /\ \/ \E c \in Callers :
          /\ CallerStep(c, Tokens)
          /\ lastStep' = [d \in Callers |-> AttemptOf(d, c)]
     \/ /\ \/ \E e \in ExtIds : GetSessionIDRead(e)
           \/ GetSessionIDReturn
        /\ UNCHANGED lastStep
  /\ UNCHANGED <<sessionVars, handlerVars, parserVars, signalVars, stunVars, loadVars,
                 handled, lastSet, allOk>>

SpecPersist == InitPersist /\ [][NextPersist]_vars

\* A run of SetSessionID calls, the file possibly deleted by hand, then a
\* restart; with the history of the ids assigned and of the calls' results.
RestartTokens == {"tok-a", InvalidToken}

NextRestart ==
  /\ \/ /\ boot = "first"
        /\ \E c \in Callers :
             /\ CallerStep(c, RestartTokens)
             /\ lastSet' = IF spc[c] = "set"
                              THEN Put(lastSet, sarg[c].extension, sarg[c].sessionID)
                              ELSE lastSet
             /\ allOk' = (allOk /\ ~(spc[c] = "ret" /\ serr[c] # NoErr))
        /\ UNCHANGED <<handled, lastStep>>
     \/ /\ boot = "first"
        /\ DeleteFile
        /\ UNCHANGED historyVars
     \/ /\ boot = "first"
        /\ Restart
        /\ UNCHANGED historyVars
  /\ UNCHANGED <<sessionVars, handlerVars, parserVars, signalVars, stunVars, loadVars>>

SpecRestart == InitStale /\ [][NextRestart]_vars

\* The blf functions on every body.
InitParserSpec ==
  /\ InitMain(<<"1001", "2404">>)
  /\ InitHandlers
  /\ InitParser(Bodies)
  /\ InitHistory
  /\ InitState

NextParser ==
  /\ \/ CallParseDialogInfo
     \/ CallExtensionFromDialogInfo
     \/ CallParsePresenceBody
     \/ \E s \in StateValues : CallToGraph(s)
  /\ UNCHANGED <<sessionVars, handlerVars, historyVars, stateVars, signalVars, stunVars, loadVars>>

SpecParser == InitParserSpec /\ [][NextParser]_vars

----------------------------------------------------------------------------
(* Claims about the session.                                               *)

RECURSIVE SelectMethod(_, _)
SelectMethod(reqs, method) ==
  IF reqs = <<>> THEN <<>>
  ELSE IF Head(reqs).method = method
    THEN <<Head(reqs)>> \o SelectMethod(Tail(reqs), method)
    ELSE SelectMethod(Tail(reqs), method)

RegisterRequests == SelectMethod(sent, "REGISTER")
SubscribeRequests == SelectMethod(sent, "SUBSCRIBE")

RECURSIVE SelectAuth(_, _)
SelectAuth(reqs, auth) ==
  IF reqs = <<>> THEN <<>>
  ELSE IF Head(reqs).auth = auth
    THEN <<Head(reqs)>> \o SelectAuth(Tail(reqs), auth)
    ELSE SelectAuth(Tail(reqs), auth)

Targets(reqs) == [i \in 1..Len(reqs) |-> reqs[i].target]

IsChallenge(reply) == reply.kind = "response" /\ reply.status = 401

\* C1: Register sends at most two requests; when the reply to the
\* credentialed resend is a 200 it succeeds having sent exactly two, and when
\* that reply is a second challenge or any other non-success status it fails
\* having sent exactly two.
C1_RegisterChallengeRetry ==
  /\ Len(RegisterRequests) <= 2
  /\ Len(regReplies) = 2 =>
       /\ regReplies[1] = Response(401, "valid")
       /\ Len(RegisterRequests) = 2
       /\ regErr # Pending
       /\ (regReplies[2].kind = "response" /\ regReplies[2].status = 200)
            => regErr = NoErr
       /\ (regReplies[2].kind = "response" /\ regReplies[2].status \notin {200, 202})
            => regErr = Err("register failed", "", regReplies[2].status)

\* A valid challenge answered, then 200: registered after two requests.
C1_Witness ==
  /\ regReplies = <<Response(401, "valid"), Response(200, "absent")>>
  /\ regErr = NoErr
  /\ Len(RegisterRequests) = 2

FailedPositions == {i \in 1..Len(subFailed) : subFailed[i]}

\* C2: once Subscribe has returned, it returned an error exactly when every
\* extension's subscribeOne failed, and the list it reports holds exactly the
\* extensions whose subscribeOne failed.
C2_SubscribeAggregates ==
  subErr # Pending =>
    /\ Len(subFailed) = Len(extensions)
    /\ (subErr # NoErr) <=> (\A i \in 1..Len(extensions) : subFailed[i])
    /\ (\E i \in 1..Len(extensions) : ~subFailed[i]) => subErr = NoErr
    /\ {failed[i] : i \in 1..Len(failed)} = {extensions[i] : i \in FailedPositions}
    /\ Len(failed) = Cardinality(FailedPositions)

\* Three extensions of which only the second fails: success, and exactly the
\* second reported.
C2_Witness ==
  /\ extensions = <<"1001", "2404", "1001">>
  /\ subFailed = <<FALSE, TRUE, FALSE>>
  /\ subErr = NoErr
  /\ failed = <<"2404">>

\* The requests of one Subscribe call are, per extension and in list order,
\* one request without credentials, then at most one with.
SubscribeRequestsWellFormed ==
  /\ Targets(SelectAuth(SubscribeRequests, FALSE)) = extensions
  /\ \A i \in 1..Len(SubscribeRequests) :
       SubscribeRequests[i].auth =>
         /\ i > 1
         /\ ~SubscribeRequests[i - 1].auth
         /\ SubscribeRequests[i - 1].target = SubscribeRequests[i].target

----------------------------------------------------------------------------
(* Claims about the handling of one notification.                          *)

\* A handler whose notification is past parsing and callback.
Handled(h) == hreq[h] # NoRequest /\ hpc[h] # "acked"

CallbackEvents(h) == SelectSeq(htrace[h], LAMBDA e : e.ev = "callback")
PostEvents(h) == SelectSeq(htrace[h], LAMBDA e : e.ev = "post")

\* C4: whatever the body of a notification (empty, undecodable or valid),
\* the first thing its handler does is send the 200 OK, before any parsing
\* and any callback, and it sends it once.
C4_AcknowledgedFirst ==
  \A h \in Handlers :
    hreq[h] # NoRequest =>
      /\ Len(htrace[h]) >= 1
      /\ htrace[h][1].ev = "respond"
      /\ \A i \in 1..Len(htrace[h]) :
           /\ htrace[h][i].ev = "respond" => i = 1
           /\ htrace[h][i].ev \in {"parse", "callback"} => i > 1

\* A valid body: acknowledged, then parsed, then the callback.
C4_Witness ==
  /\ hreq["h1"] = Notify(Doc(Uri1001, "confirmed"), NoHeader)
  /\ htrace["h1"] =
       <<RespondEvent(TRUE), ParseEvent, CallbackEvent(<<"1001">>, StateBusy)>>

\* The resource identifier of a notification: found in the body, else in the
\* To header.
Identifier(req) ==
  IF ExtensionFromDialogInfo(req.body) # EmptyStr
    THEN ExtensionFromDialogInfo(req.body)
    ELSE ToExtension(req.to)

\* The callback invocations a notification is to cause.
ExpectedCallbacks(req) ==
  IF req.body.kind # "empty" /\ Identifier(req) # EmptyStr
    THEN <<CallbackEvent(Identifier(req), NotifyState(req.body))>>
    ELSE <<>>

\* C5 as stated: a handled notification has caused exactly one callback
\* invocation, with (identifier, state), when its body is non-empty and an
\* identifier was found, and none otherwise.
C5_CallbackIffIdentified ==
  \A h \in Handlers :
    Handled(h) => CallbackEvents(h) = ExpectedCallbacks(hreq[h])

\* C5, amended: no notification causes more than one callback invocation,
\* and a handled notification has caused exactly one, with (identifier,
\* state), when the 200 OK was sent, its body is non-empty and an identifier
\* was found in the body, else in the To header; it has caused none when the
\* 200 OK could not be sent, the body is empty, or no identifier was found.
C5_CallbackIffAcknowledged ==
  \A h \in Handlers :
    /\ Len(CallbackEvents(h)) <= 1
    /\ Handled(h) =>
         CallbackEvents(h) =
           IF htrace[h][1].ok THEN ExpectedCallbacks(hreq[h]) ELSE <<>>

\* A body that names no extension, the To header naming 1001: one callback.
C5_Witness ==
  /\ hreq["h1"].kind = "notify"
  /\ hreq["h1"].body = TextBody({})
  /\ ToExtension(hreq["h1"].to) = <<"1001">>
  /\ CallbackEvents("h1") = <<CallbackEvent(<<"1001">>, StateUnknown)>>

\* A body neither schema decodes.
Undecodable(body) == ~DecodesNamespaced(body) /\ ~DecodesNoNamespace(body)

\* C6 as stated: a notification whose body neither schema decodes is
\* published, if at all, as Available/Available.
C6_UndecodableNeverBusy ==
  \A h \in Handlers :
    (hreq[h] # NoRequest /\ Undecodable(hreq[h].body)) =>
      \A i \in 1..Len(PostEvents(h)) :
        /\ PostEvents(h)[i].availability = GraphAvailabilityAvailable
        /\ PostEvents(h)[i].activity = GraphActivityAvailable

\* C6, amended: a notification whose body neither schema decodes is
\* published, if at all, as Busy/InACall when the body contains "open" and
\* not "dialog-info", and as Available/Available otherwise.
C6_UndecodableBusyOnlyIfOpen ==
  \A h \in Handlers :
    (hreq[h] # NoRequest /\ Undecodable(hreq[h].body)) =>
      \A i \in 1..Len(PostEvents(h)) :
        <<PostEvents(h)[i].availability, PostEvents(h)[i].activity>> =
          IF Contains(hreq[h].body, "open") /\ ~Contains(hreq[h].body, "dialog-info")
            THEN <<GraphAvailabilityBusy, GraphActivityInACall>>
            ELSE <<GraphAvailabilityAvailable, GraphActivityAvailable>>

\* Bytes without any of the literals, for extension 1001: published as
\* Available/Available.
C6_Witness ==
  /\ hreq["h1"].kind = "notify"
  /\ hreq["h1"].body = TextBody({})
  /\ PostEvents("h1") =
       <<PostEvent(TRUE, GraphAvailabilityAvailable, GraphActivityAvailable)>>

----------------------------------------------------------------------------
(* Claims about identity resolution.                                       *)

\* C7 as stated: under any interleaving of the handlers, the directory is
\* asked at most once for an identifier.
C7_LookupAtMostOnce ==
  \A i, j \in 1..Len(calls) :
    (calls[i].upn = calls[j].upn /\ calls[i].lookedUp /\ calls[j].lookedUp) => i = j

\* Two handlers resolving the same identifier at once both miss the cache
\* and both ask the directory with success.
C7_Witness ==
  /\ Len(calls) = 2
  /\ calls[1].upn = calls[2].upn
  /\ calls[2].doneBefore = {}
  /\ calls[1].lookedUp /\ calls[1].ret = "ok"
  /\ calls[2].lookedUp /\ calls[2].ret = "ok"

\* The first and the second call for an identifier.
CallsFor(upn) == {i \in 1..Len(calls) : calls[i].upn = upn}
IsFirstFor(i) == \A k \in CallsFor(calls[i].upn) : k >= i
IsSecondFor(j) == Cardinality({k \in CallsFor(calls[j].upn) : k < j}) = 1

LookupCount(S) == Cardinality({i \in S : calls[i].lookedUp})

----------------------------------------------------------------------------
(* Claims about the dialog-state parser.                                   *)

\* The effective state of a sub-dialog, case and white space aside: the text
\* of its <state> child, else its state attribute.
EffectiveState(d) == IF d.state.text # "" THEN d.state.text ELSE d.stateAttr.text

\* The sub-dialogs that are not skipped.
Active(dialogs) ==
  {i \in 1..Len(dialogs) : EffectiveState(dialogs[i]) \notin {"terminated", ""}}

FirstActive(dialogs) ==
  CHOOSE i \in Active(dialogs) : \A k \in Active(dialogs) : i <= k

StateDoc(states) ==
  XmlBody("dialog-info", RfcNamespace, Uri1001,
          [i \in 1..Len(states) |-> DialogElem(Tok(states[i]), NoText, EmptyStr)], {})

\* C9: of a decodable document with a sub-dialog that is not skipped, the
\* first such sub-dialog alone decides: ringing when its effective state is
\* trying, early or proceeding, busy for any other; [terminated, early,
\* confirmed] is ringing and [terminated, confirmed, early] is busy.
C9_FirstActiveDecides ==
  /\ (pCall = "ParseDialogInfo" /\ DecodesNoNamespace(pBody)
        /\ Active(pBody.dialogs) # {}) =>
       pResult =
         IF EffectiveState(pBody.dialogs[FirstActive(pBody.dialogs)])
              \in {"trying", "early", "proceeding"}
           THEN StateRinging
           ELSE StateBusy
  /\ (pCall = "ParseDialogInfo"
        /\ pBody = StateDoc(<<"terminated", "early", "confirmed">>)) =>
       pResult = StateRinging
  /\ (pCall = "ParseDialogInfo"
        /\ pBody = StateDoc(<<"terminated", "confirmed", "early">>)) =>
       pResult = StateBusy

\* [terminated, early, confirmed] parsed: ringing.
C9_Witness ==
  /\ pCall = "ParseDialogInfo"
  /\ pBody = StateDoc(<<"terminated", "early", "confirmed">>)
  /\ pResult = StateRinging

\* C10: a decodable document without sub-dialogs, or whose sub-dialogs are
\* all terminated or without state, is idle.
C10_NoActiveIsIdle ==
  (pCall = "ParseDialogInfo" /\ DecodesNoNamespace(pBody)
     /\ Active(pBody.dialogs) = {}) =>
    pResult = StateIdle

\* Three sub-dialogs, terminated in upper case, blank, and terminated by
\* attribute: idle.
C10_Witness ==
  /\ pCall = "ParseDialogInfo"
  /\ pBody.kind = "xml" /\ pBody.xmlns = RfcNamespace
  /\ pBody.dialogs = <<DialogElem(Written("terminated", TRUE, TRUE), NoText, EmptyStr),
                       DialogElem(Blank, NoText, EmptyStr),
                       DialogElem(NoText, Tok("terminated"), EmptyStr)>>
  /\ pResult = StateIdle

\* The same document with the dialog-info namespace declared.
WithNamespace(body) == [body EXCEPT !.xmlns = RfcNamespace]

\* C11: a dialog-info document that declares no namespace is given the state
\* the same document is given when it declares the dialog-info namespace,
\* whatever its sub-dialogs' states and wherever they are written.
C11_NamespaceFreeSameState ==
  (pCall = "ParseDialogInfo" /\ DecodesNoNamespace(pBody)
     /\ ~DecodesNamespaced(pBody)) =>
    /\ pResult = ParseDialogInfo(WithNamespace(pBody))
    /\ pResult # StateUnknown

\* Without namespace: a terminated sub-dialog, then one whose state is
\* written as an attribute in upper case: busy, as with the namespace.
C11_Witness ==
  /\ pCall = "ParseDialogInfo"
  /\ pBody.kind = "xml" /\ pBody.root = "dialog-info" /\ pBody.xmlns = ""
  /\ pBody.dialogs = <<DialogElem(Tok("terminated"), NoText, EmptyStr),
                       DialogElem(NoText, Written("confirmed", TRUE, FALSE), EmptyStr)>>
  /\ pResult = StateBusy
  /\ ParseDialogInfo(WithNamespace(pBody)) = StateBusy

----------------------------------------------------------------------------
(* Claims about the extraction of the resource identifier.                 *)

\* The identifier the document itself names: the user part of its entity
\* attribute, else of the local identity of its first sub-dialog, else none.
DocumentIdentifier(body) ==
  IF body.entity # EmptyStr /\ UserOfURI(body.entity).found
    THEN UserOfURI(body.entity).user
  ELSE IF Len(body.dialogs) > 0 /\ UserOfURI(body.dialogs[1].localIdentity).found
    THEN UserOfURI(body.dialogs[1].localIdentity).user
  ELSE EmptyStr

\* C12 as stated: for every body the dialog-state parser accepts, with the
\* namespace or without, the extraction returns the identifier the document
\* names.
C12_IdentifierOfAcceptedBody ==
  (pCall = "ExtensionFromDialogInfo" /\ ParseDialogInfo(pBody) # StateUnknown) =>
    pResult = DocumentIdentifier(pBody)

\* A document without namespace, entity sip:1001@pbx, that the dialog-state
\* parser accepts: the extraction returns the empty string.
C12_Witness ==
  /\ pCall = "ExtensionFromDialogInfo"
  /\ pBody.kind = "xml" /\ pBody.xmlns = "" /\ pBody.entity = Uri1001
  /\ ParseDialogInfo(pBody) = StateBusy
  /\ pResult = EmptyStr

----------------------------------------------------------------------------
(* Claims about failures while a notification is handled.                  *)

\* C13: for a body neither schema decodes the dialog-state parser returns
\* unknown; the handler of such a notification goes on to the end of
\* handleNOTIFY and returns, or calls the callback, so that the dispatcher
\* handles the notifications that follow.
C13_UndecodableIsUnknown ==
  /\ [](\A h \in Handlers :
          (hreq[h] # NoRequest /\ Undecodable(hreq[h].body)) =>
            /\ ParseDialogInfo(hreq[h].body) = StateUnknown
            /\ hpc[h] \in {"idle", "acked", "rlock", "rlocked", "lookup",
                            "wlock", "wlocked", "post"}
            /\ \A i \in 1..Len(CallbackEvents(h)) :
                 CallbackEvents(h)[i].state = ParsePresenceBody(hreq[h].body))
  /\ (hpc["h1"] = "acked" /\ Undecodable(hreq["h1"].body)) ~> (hpc["h1"] # "acked")

\* The second notification is bytes that are no document, with "dialog-info"
\* among them: handled, the callback called with unknown.
C13_Witness ==
  /\ received = 2
  /\ hreq["h1"].kind = "notify"
  /\ hreq["h1"].body = TextBody({"dialog-info"})
  /\ hpc["h1"] = "rlock"
  /\ htrace["h1"] =
       <<RespondEvent(TRUE), ParseEvent, CallbackEvent(<<"1001">>, StateUnknown)>>

----------------------------------------------------------------------------
(* Claims about the state mapper.                                          *)

\* C14: ToGraph gives every State value one pair: (Busy, InACall) for
\* ringing and busy, (Available, Available) for idle, unknown and any other
\* value.
C14_ToGraphTotal ==
  pCall = "ToGraph" =>
    /\ pResult.state \in {StateRinging, StateBusy} =>
         pResult.pair = <<GraphAvailabilityBusy, GraphActivityInACall>>
    /\ pResult.state \notin {StateRinging, StateBusy} =>
         pResult.pair = <<GraphAvailabilityAvailable, GraphActivityAvailable>>
    /\ pResult.pair = ToGraph(pResult.state)

\* ringing mapped to (Busy, InACall).
C14_Witness ==
  /\ pCall = "ToGraph"
  /\ pResult = [state |-> StateRinging,
                pair |-> <<GraphAvailabilityBusy, GraphActivityInACall>>]

----------------------------------------------------------------------------
(* Claims about the pipeline from notification to presence update.         *)

\* The notifications handled to the end, in order.
Log ==
  handled \o (IF hreq["h1"] # NoRequest /\ hpc["h1"] = "idle"
                THEN <<HandledRecord("h1")>>
                ELSE <<>>)

Configured(e) == \E k \in 1..Len(extensions) : extensions[k] = e

\* The 200 OK of the notification was sent and no directory lookup failed.
Resolved(rec) ==
  /\ rec.trace[1].ok
  /\ \A j \in 1..Len(rec.trace) : rec.trace[j] # LookupEvent(FALSE)

CallbacksOf(rec) == SelectSeq(rec.trace, LAMBDA ev : ev.ev = "callback")
PairsOf(rec) ==
  LET ps == SelectSeq(rec.trace, LAMBDA ev : ev.ev = "post")
  IN [j \in 1..Len(ps) |-> <<ps[j].availability, ps[j].activity>>]

IsDocOf(rec, e, state) == rec.req = Notify(Doc(UriOf(e), state), NoHeader)

PostOf(i) == [extension |-> posts[i].extension,
                 pair |-> <<posts[i].availability, posts[i].activity>>]

ResolutionFails(h) ==
  /\ hpc[h] = "lookup"
  /\ hpc'[h] # "lookup"
  /\ calls'[hcall[h].idx].ret = "err"

\* C16: when the lookup of resolveUserID fails (error, no user, no id),
\* SetPresence returns the error and the handler is done without a
\* setPresence request, and the cache is left as it was; the cache changes
\* only when a call stores the id it has looked up, other entries intact.
C16_FailedResolutionNoEffect ==
  /\ [][\A h \in Handlers :
          ResolutionFails(h) =>
            /\ userIDCache' = userIDCache
            /\ posts' = posts
            /\ hpc'[h] = "idle"]_vars
  /\ [][userIDCache' # userIDCache =>
          \E h \in Handlers :
            /\ hpc[h] = "wlocked"
            /\ calls'[hcall[h].idx].ret = "ok"
            /\ DOMAIN userIDCache' = DOMAIN userIDCache \cup {hcall[h].userID}
            /\ \A u \in DOMAIN userIDCache \ {hcall[h].userID} :
                 userIDCache'[u] = userIDCache[u]]_vars
  /\ [](\A h \in Handlers :
          (\E j \in 1..Len(htrace[h]) : htrace[h][j] = LookupEvent(FALSE)) =>
            /\ PostEvents(h) = <<>>
            /\ hpc[h] = "idle"
            /\ calls[hcall[h].idx].ret = "err")

\* bob's id is cached; the lookup of alice failed: no request was made for
\* her, and the cache holds bob's id only.
C16_Witness ==
  /\ Len(calls) = 2
  /\ calls[1].upn = EmailOf("2404") /\ calls[1].ret = "ok"
  /\ calls[2].upn = EmailOf("1001") /\ calls[2].ret = "err"
  /\ DOMAIN userIDCache = {EmailOf("2404")}
  /\ userIDCache[EmailOf("2404")] = calls[1].id
  /\ \A i \in 1..Len(posts) : posts[i].extension = <<"2404">>

\* The setPresence requests and the callbacks in a trace.
PostsIn(trace) == Len(SelectSeq(trace, LAMBDA ev : ev.ev = "post"))
CallbacksIn(trace) == Len(SelectSeq(trace, LAMBDA ev : ev.ev = "callback"))

RECURSIVE PostsInAll(_)
PostsInAll(recs) ==
  IF recs = <<>> THEN 0 ELSE PostsIn(Head(recs).trace) + PostsInAll(Tail(recs))

\* C17: a notification's callback makes at most one setPresence request;
\* with that request, failed or not, the handler is done, and every request
\* ever made is the one request of some notification's callback.
C17_NoPublishRetry ==
  /\ PostsIn(htrace["h1"]) <= CallbacksIn(htrace["h1"])
  /\ CallbacksIn(htrace["h1"]) <= 1
  /\ PostsIn(htrace["h1"]) = 1 =>
       /\ htrace["h1"][Len(htrace["h1"])].ev = "post"
       /\ hpc["h1"] = "idle"
  /\ \A i \in 1..Len(handled) :
       PostsIn(handled[i].trace) <= CallbacksIn(handled[i].trace)
  /\ Len(posts) = PostsInAll(handled) + PostsIn(htrace["h1"])

\* The request for 1001 failed; the next notification for 1001 made a
\* request of its own.
C17_Witness ==
  /\ Len(handled) = 1
  /\ handled[1].trace[Len(handled[1].trace)] =
       PostEvent(FALSE, GraphAvailabilityBusy, GraphActivityInACall)
  /\ handled[1].req = Notify(Doc(UriOf("1001"), "confirmed"), NoHeader)
  /\ hreq["h1"] = Notify(Doc(UriOf("1001"), "terminated"), NoHeader)
  /\ PostsIn(htrace["h1"]) = 1
  /\ Len(posts) = 2

----------------------------------------------------------------------------
(* Claims about the process as a whole.                                    *)

\* The handler whose setPresence request fails in this step.
PublishFails(h) ==
  /\ hpc[h] = "post"
  /\ Len(htrace'[h]) = Len(htrace[h]) + 1
  /\ htrace'[h][Len(htrace'[h])].ev = "post"
  /\ ~htrace'[h][Len(htrace'[h])].ok

\* C18: the process exits only when Register failed or when Subscribe
\* failed, every extension having failed; a failed identity resolution or a
\* failed setPresence request leaves main where it is and ends the handler,
\* and whatever failed before, an acknowledged notification of a configured
\* extension enters SetPresence.
C18_FailureIsolation ==
  /\ [][(pc' = "exited" /\ pc # "exited") =>
          \/ /\ regErr = Pending
             /\ regErr' \notin {Pending, NoErr}
          \/ /\ subErr = Pending
             /\ subErr' \notin {Pending, NoErr}
             /\ \A i \in 1..Len(extensions) : subFailed'[i]]_vars
  /\ [][\A h \in Handlers :
          (ResolutionFails(h) \/ PublishFails(h)) =>
            /\ pc' = pc
            /\ hpc'[h] = "idle"]_vars
  /\ [][\A h \in Handlers :
          (/\ hpc[h] = "acked" /\ hpc'[h] # "acked"
           /\ hreq[h].body.kind # "empty"
           /\ Len(Identifier(hreq[h])) = 1
           /\ Configured(Identifier(hreq[h])[1])) =>
            /\ hpc'[h] = "rlock"
            /\ Len(calls') = Len(calls) + 1]_vars

\* The resolution of alice failed, the process runs, and the next
\* notification for her extension has made its own request.
C18_Witness ==
  /\ pc = "running"
  /\ Len(calls) = 2
  /\ calls[1].upn = EmailOf("1001") /\ calls[1].ret = "err"
  /\ calls[2].upn = EmailOf("1001") /\ calls[2].ret = "ok"
  /\ Len(posts) = 1

----------------------------------------------------------------------------
(* Claims about the session token and the session state.                   *)

\* C19: every setPresence request, for every extension, carries the
\* application id as its session id, so no extension is ever published with
\* two session ids, whatever the loaded state holds for it; and no step of
\* the publish path changes the in-memory map or the state file.
C19_SessionTokenStable ==
  /\ [](\A i \in 1..Len(posts) : posts[i].sessionId = ClientID)
  /\ [](\A i, j \in 1..Len(posts) :
          posts[i].extension = posts[j].extension =>
            posts[i].sessionId = posts[j].sessionId)
  /\ [][ByExt' = ByExt /\ file' = file]_vars

\* Extension 1001 has been published twice while the loaded state holds
\* other session ids for both extensions.
C19_Witness ==
  /\ "1001" \in DOMAIN ByExt /\ ByExt["1001"] # ClientID
  /\ "2404" \in DOMAIN ByExt /\ ByExt["2404"] # ClientID
  /\ Len(posts) = 2
  /\ posts[1].extension = <<"1001">>
  /\ posts[2].extension = <<"1001">>

\* C20: when a SetSessionID call is about to return nil, the state file
\* holds a complete document of the map, and the document has the key the
\* call stored.
C20_WriteThrough ==
  \A c \in Callers :
    (spc[c] = "ret" /\ serr[c] = NoErr) =>
      /\ file.kind = "image"
      /\ sarg[c].extension \in DOMAIN file.image

\* s1 has written the map and is about to return nil while s2, holding the
\* read lock too, has opened the file and emptied it, with no call having
\* failed.
C20_Witness ==
  /\ spc["s1"] = "ret" /\ serr["s1"] = NoErr
  /\ spc["s2"] = "write"
  /\ smuReaders = {"s1", "s2"}
  /\ sdata["s1"] = ByExt /\ sdata["s2"] = ByExt
  /\ file = FileEmpty

\* C21: a GetSessionID call never reads a session id for an extension that
\* the state file does not hold.
C21_NeverStale ==
  (got.called /\ got.sessionID # "") =>
    /\ file.kind = "image"
    /\ got.extension \in DOMAIN file.image

\* s1 has stored tok-a for 1001 and released the lock, its save has not
\* started, and GetSessionID reads tok-a while the file holds the empty map.
C21_Witness ==
  /\ spc["s1"] = "rlock"
  /\ sarg["s1"] = [extension |-> "1001", sessionID |-> "tok-a"]
  /\ spc["s2"] = "idle"
  /\ got = [extension |-> "1001", sessionID |-> "tok-a", called |-> TRUE]
  /\ file = FileImage(EmptyMap)

\* What GetSessionID returns for an extension on the map m.
GetSessionID(m, extension) == IF extension \in DOMAIN m THEN m[extension] ELSE ""

----------------------------------------------------------------------------
(* Claims about start-up and the failures of Register and Subscribe.       *)

\* The positions of main inside Subscribe.
InSubscribe == pc \in {"subscribe", "sub_wait1", "sub_resend", "sub_wait2"}

\* What Register returned is a failure.
RegisterFailed == regErr \notin {Pending, NoErr}

\* C23: a SUBSCRIBE request is sent, and main is in Subscribe, only after
\* Register has returned nil; when Register has returned an error (a dead
\* transaction, a challenge that cannot be answered, a second challenge or
\* another non-success status) the process has exited, Subscribe was never
\* called and no SUBSCRIBE request was sent.
C23_StartupOrdering ==
  /\ \A i \in 1..Len(sent) : sent[i].method = "SUBSCRIBE" => regErr = NoErr
  /\ (InSubscribe \/ subErr # Pending) => regErr = NoErr
  /\ RegisterFailed =>
       /\ pc = "exited"
       /\ subErr = Pending /\ subIdx = 1 /\ subFailed = <<>>
       /\ \A i \in 1..Len(sent) : sent[i].method = "REGISTER"

\* Register answered the challenge, was challenged again, and failed: the
\* process has exited with the two REGISTER requests as all it sent.
C23_Witness ==
  /\ regErr = Err("register failed", "", 401)
  /\ Len(regReplies) = 2
  /\ pc = "exited"
  /\ Len(extensions) > 0
  /\ Len(sent) = 2

\* The error kinds of a challenge that cannot be read.
MalformedKinds == {"401 without WWW-Authenticate", "parse challenge"}

\* A reply of status `status` whose challenge parameters cannot be
\* extracted: there is no header, or the header does not parse.
Malformed(reply, status) ==
  /\ reply.kind = "response"
  /\ reply.status = status
  /\ reply.chal \in {"absent", "unparsable"}

\* C24: when the reply to a request of Register or of subscribeOne is a 401
\* or a 407 from which no challenge parameters can be extracted, the
\* function returns a malformed-challenge error without a resend.
C24_MalformedChallenge ==
  (/\ lastStep.op # "none"
   /\ lastStep.which = 1
   /\ (Malformed(lastStep.reply, 401) \/ Malformed(lastStep.reply, 407))) =>
     lastStep.err.kind \in MalformedKinds

\* C24, amended: the reply to the first request of Register or of
\* subscribeOne makes the function return a malformed-challenge error exactly
\* when it is a 401 from which no challenge parameters can be extracted, and
\* then no resend is made; a dead transaction gives the transaction-died
\* error, and a 407, which the code does not treat as a challenge, gives the
\* non-success-status error, without a resend either.
C24_Malformed401 ==
  (lastStep.op # "none" /\ lastStep.which = 1) =>
    /\ (lastStep.err.kind \in MalformedKinds) <=> Malformed(lastStep.reply, 401)
    /\ (Malformed(lastStep.reply, 401) \/ Malformed(lastStep.reply, 407)) =>
         /\ pc \notin {"reg_resend", "sub_resend"}
         /\ \A i \in (lastStep.at + 1)..Len(sent) : ~sent[i].auth
    /\ lastStep.reply.kind = "died" => lastStep.err.kind = "transaction died"
    /\ Malformed(lastStep.reply, 407) =>
         /\ lastStep.err.kind \in {"register failed", "subscribe"}
         /\ lastStep.err.status = 407

\* Register got a 401 without a WWW-Authenticate header: it returned the
\* malformed-challenge error having sent one request.
C24_Witness ==
  /\ lastStep.op = "Register"
  /\ lastStep.which = 1
  /\ lastStep.reply = Response(401, "absent")
  /\ regErr = Err("401 without WWW-Authenticate", "", 0)
  /\ Len(sent) = 1
  /\ pc = "exited"

\* C25: once the context is cancelled, the only request sent is the
\* credentialed resend of the attempt that was under way: no first request
\* of Register or of a subscribeOne is sent.
C25_CancelSkips ==
  Cancelled => \A i \in (cancelAt + 1)..Len(sent) : sent[i].auth

\* The signal came while main waited for the reply to the SUBSCRIBE of 1001;
\* Subscribe went on to 2404, whose transaction is open.
C25_Witness ==
  /\ cancelAt = 2
  /\ Len(sent) = 3
  /\ sent[2] = Request("SUBSCRIBE", "1001", FALSE)
  /\ sent[3] = Request("SUBSCRIBE", "2404", FALSE)
  /\ pc = "sub_wait1"

----------------------------------------------------------------------------
(* Claims about the discovery of the public address.                       *)

\* The addresses DiscoverPublicAddress is to try for a list, in order.
NonBlank(servers) == SelectSeq(servers, LAMBDA x : TrimSpace(x).text # <<>>)
Candidates(servers) ==
  [k \in 1..Len(NonBlank(servers)) |-> normalizeSTUNAddr(TrimSpace(NonBlank(servers)[k]).text)]

\* C26: the probes made are the first candidates of the list, in list
\* order; no probe follows one that was answered, and the answer's mapped
\* address is what is returned; the empty list returns the no-servers error
\* without a probe; when every candidate has failed the all-servers-failed
\* error is returned.
C26_DiscoverInOrder ==
  /\ Len(probes) <= Len(Candidates(dServers))
  /\ \A k \in 1..Len(probes) : probes[k].addr = Candidates(dServers)[k]
  /\ \A k \in 1..(Len(probes) - 1) : ~probes[k].outcome.ok
  /\ dpc = "returned" =>
       /\ Len(dServers) = 0 =>
            (probes = <<>> /\ dRet = Ret("", 0, Err("no STUN servers configured", "", 0)))
       /\ (Len(probes) > 0 /\ probes[Len(probes)].outcome.ok) =>
            dRet = Ret(probes[Len(probes)].outcome.ip, probes[Len(probes)].outcome.port, NoErr)
       /\ (Len(dServers) > 0 /\ \A k \in 1..Len(probes) : ~probes[k].outcome.ok) =>
            /\ Len(probes) = Len(Candidates(dServers))
            /\ dRet = Ret("", 0, Err("all STUN servers failed", "", 0))
  /\ (dpc = "loop" /\ Len(probes) > 0) => ~probes[Len(probes)].outcome.ok

\* Of three servers the first failed and the second answered: its mapped
\* address is returned and the third was not tried.
C26_Witness ==
  /\ dpc = "returned"
  /\ Len(NonBlank(dServers)) = 3
  /\ Len(probes) = 2
  /\ ~probes[1].outcome.ok
  /\ probes[2].addr = [host |-> <<"stun2">>, port |-> 3478]
  /\ dRet = Ret("198.51.100.9", 40001, NoErr)

\* A value of the advertise address that is one of the sentinels, however
\* it is padded or capitalised.
Sentinel(contactIP) == contactIP.text \in {<<>>, <<"auto">>, <<"stun">>}

\* C27: while the configured address is no sentinel, no step makes a probe
\* or changes the address or the port; and the step in which discovery, or
\* ResolveContactIfNeeded itself, returns an error changes neither.
C27_ResolveFrame ==
  /\ [][~Sentinel(cfg.ContactIP) => (probes' = probes /\ cfg' = cfg)]_vars
  /\ [][(rErr' \notin {Pending, NoErr}) => cfg' = cfg]_vars
  /\ [](~Sentinel(cfg.ContactIP) /\ rpc = "returned" /\ probes = <<>> => rErr = NoErr)

\* The address is 10.0.0.5 with white space around it and servers are
\* configured: ResolveContactIfNeeded has returned nil without a probe.
C27_Witness ==
  /\ rpc = "returned"
  /\ rErr = NoErr
  /\ cfg.ContactIP = Written(<<"10.0.0.5">>, FALSE, TRUE)
  /\ cfg.ContactPort = 5070
  /\ Len(cfg.STUNServers) = 2
  /\ probes = <<>>
  /\ dpc = "idle"

----------------------------------------------------------------------------
(* Claims about start-up.                                                  *)

\* C28: when the configured .json file does not exist, main loads the list
\* from the .csv file beside it, and exits only if that file is missing too.
C28_CsvFallback ==
  (/\ lpc \in {"loaded", "exited"}
   /\ HasSuffix(lPath, ".json")
   /\ ~Exists(lDir, lPath)
   /\ lDir[".csv"].kind = "csv") =>
     /\ lpc = "loaded"
     /\ lRet.list = CsvRows(lDir[".csv"].rows, 1)

\* There is no extensions.json, extensions.csv holds a header and a row for
\* 1001, and main has exited.
C28_Witness ==
  /\ lpc = "exited"
  /\ lPath = Path("config/extensions", ".json")
  /\ lDir[".json"] = Missing
  /\ lDir[".csv"] = CsvFile(<<<<Written("extension", TRUE, TRUE), Str("email")>>,
                             <<Str("1001"), Written("alice@example.com", FALSE, TRUE)>>>>)
  /\ lRet.err = Err("file does not exist", "", 0)

----------------------------------------------------------------------------
(* Claims about the identity cache's lock.                                 *)

\* The handler's goroutine is in the directory lookup or in the presence
\* request.
InFlight(h) == hpc[h] \in {"lookup", "post"}

\* C29: while a handler's directory lookup or presence request is in flight
\* that handler holds neither the read nor the write lock of the identity
\* cache; the read lock is held only while the cache is read, the write lock
\* only while the looked-up id is stored.
C29_NoLockInFlight ==
  \A h \in Handlers :
    /\ InFlight(h) => (h \notin readers /\ writer # h)
    /\ h \in readers => hpc[h] = "rlocked"
    /\ writer = h => (hpc[h] = "wlocked" /\ calls[hcall[h].idx].lookedUp)

\* One handler's lookup is in flight while the other one, back from its own
\* lookup, holds the write lock to store its result.
C29_Witness ==
  /\ hpc["h1"] = "lookup"
  /\ hpc["h2"] = "wlocked"
  /\ writer = "h2"
  /\ readers = {}

----------------------------------------------------------------------------
(* Claims about Subscribe's classification of failures.                    *)

\* The peer's final status for the attempt was 404.
Final404(last) == last.kind = "response" /\ last.status = 404

\* C30: a failed attempt is logged as the 404 warning exactly when the
\* peer's final status for the extension was 404, and as an ordinary error
\* otherwise, whatever the extension; in both cases the extension is in the
\* failed list and the loop has gone on to the next extension.
C30_Classify404 ==
  (lastStep.op = "Subscribe" /\ lastStep.err # NoErr) =>
    /\ lastStep.level = IF Final404(lastStep.last) THEN "warn 404" ELSE "error"
    /\ failed[Len(failed)] = lastStep.ext
    /\ subIdx = lastStep.idx + 1

\* Extension 2404 was answered 500, and its failure was logged as the 404
\* warning.
C30_Witness ==
  /\ lastStep.op = "Subscribe"
  /\ lastStep.ext = "2404"
  /\ lastStep.last = Response(500, "absent")
  /\ lastStep.err = Err("subscribe", "2404", 500)
  /\ lastStep.level = "warn 404"
  /\ "2404" \in {failed[i] : i \in 1..Len(failed)}

----------------------------------------------------------------------------
(* Claims about the edges of Subscribe, handleNOTIFY and SetSessionID.     *)

\* C31: with an empty extension list Subscribe sends no SUBSCRIBE and, once
\* it has returned, has returned the all-subscriptions-failed error with
\* nothing in the failed list, and main has exited.
C31_EmptyListFails ==
  extensions = <<>> =>
    /\ SubscribeRequests = <<>>
    /\ pc # "running"
    /\ subErr # Pending =>
         /\ subErr = Err("all subscriptions failed", "", 0)
         /\ Len(failed) = Len(extensions)
         /\ pc = "exited"

\* No extension is configured, Register succeeded, Subscribe has returned
\* its error and main has exited; only REGISTER requests were sent.
C31_Witness ==
  /\ extensions = <<>>
  /\ regErr = NoErr
  /\ subErr = Err("all subscriptions failed", "", 0)
  /\ pc = "exited"
  /\ sent # <<>>
  /\ SubscribeRequests = <<>>

\* The notifications handler h1 has taken, the one in hand last.
Taken == IF hreq["h1"] = NoRequest THEN handled ELSE Append(handled, HandledRecord("h1"))

\* The 200 OK of the notification could not be sent.
RespondFailed(rec) == ~rec.trace[1].ok

\* The events of one kind in a trace.
EventsOf(trace, ev) == SelectSeq(trace, LAMBDA e : e.ev = ev)

\* C32: a notification whose 200 OK could not be sent leaves the handler
\* idle with nothing after the failed send: no parse, no callback, no lookup,
\* no presence request, although its body names an extension; every other
\* notification, before or after it, that the handler is done with has had
\* its body parsed and its callback invoked with the extension it names.
C32_FailedAckAbandons ==
  /\ \A i \in 1..Len(Taken) :
       LET rec == Taken[i] IN
         IF RespondFailed(rec)
           THEN /\ rec.trace = <<RespondEvent(FALSE)>>
                /\ (i = Len(Taken)) => (hpc["h1"] = "idle" /\ hcall["h1"] = NoCall)
           ELSE (i < Len(Taken) \/ hpc["h1"] = "idle") =>
                  EventsOf(rec.trace, "callback") =
                    <<CallbackEvent(NotifyExtension(rec.req), NotifyState(rec.req.body))>>
  /\ Len(calls) <= Cardinality({i \in 1..Len(Taken) : ~RespondFailed(Taken[i])})

\* The 200 OK of a notification naming 1001 could not be sent and nothing
\* followed; the next notification, for the same extension, was answered,
\* its callback invoked and its presence request made.
C32_Witness ==
  /\ Len(handled) = 1
  /\ handled[1].trace = <<RespondEvent(FALSE)>>
  /\ NotifyExtension(handled[1].req) = <<"1001">>
  /\ hpc["h1"] = "idle"
  /\ EventsOf(htrace["h1"], "callback") = <<CallbackEvent(<<"1001">>, NotifyState(hreq["h1"].body))>>
  /\ Len(posts) = 1
  /\ Len(calls) = 1

\* The caller's last SetSessionID call has returned an error.
FailedSet(c) == lastStep[c].phase = "returned" /\ lastStep[c].err # NoErr

----------------------------------------------------------------------------
(* Claims about the first event of a transaction.                          *)

\* The error Register or subscribeOne builds for a final status.
StatusErr(op, ext, status) ==
  IF op = "Register" THEN Err("register failed", "", status)
  ELSE Err("subscribe", ext, status)

\* C34: the outcome of an attempt is decided by the first event of its
\* transaction, whatever follows it: a termination gives the transaction-died
\* error, a first response other than 401, 200 and 202 (a 100 too) gives the
\* status error at once, with no further request and nothing left waiting,
\* a first 200 or 202 gives success, and a first 401 on the first
\* transaction goes on to the resend.
C34_FirstEventDecides ==
  lastStep.op \in {"Register", "subscribeOne"} =>
    LET first == lastStep.events[1]
        waiting == pc \in {"reg_wait1", "reg_wait2", "sub_wait1", "sub_wait2"}
    IN
      /\ first = Died => lastStep.err = Err("transaction died", "", 0)
      /\ (first # Died /\ IsSuccess(first.status)) => lastStep.err = NoErr
      /\ (first # Died /\ first.status = 401 /\ lastStep.which = 1) => lastStep.err = Pending
      /\ (first # Died /\ ~IsSuccess(first.status)
             /\ ~(first.status = 401 /\ lastStep.which = 1)) =>
           lastStep.err = StatusErr(lastStep.op, lastStep.ext, first.status)
      /\ (lastStep.err # Pending /\ Len(sent) = lastStep.at) => ~waiting
      /\ (lastStep.err # Pending /\ lastStep.op = "Register"
             /\ lastStep.err # NoErr) => (pc = "exited" /\ Len(sent) = lastStep.at)

\* Register's transaction delivered 100 and then 200: Register returned
\* "register failed: 100" and main exited with one request sent.
C34_Witness ==
  /\ lastStep.op = "Register"
  /\ lastStep.events = <<Response(100, "absent"), Response(200, "absent")>>
  /\ regErr = Err("register failed", "", 100)
  /\ pc = "exited"
  /\ Len(sent) = 1

----------------------------------------------------------------------------
(* Claims about the order of presence requests.                            *)

\* The availability a notification is published with.
AvailabilityOf(req) == ToGraph(NotifyState(req.body))[1]

\* C35: nothing orders or filters the presence requests of concurrent
\* handlers: every notification whose user was resolved makes its request
\* as soon as its handler gets there, whatever was requested before for the
\* extension (a repeated state included), so the requests made are as many
\* as the resolutions that succeeded, less those whose handler is about to
\* make its request, and each is the request of a notification received;
\* their order is the order in which the handlers arrive, not the order of
\* receipt.
C35_NoOrderNoDedup ==
  /\ Len(posts) + Cardinality({h \in Handlers : hpc[h] = "post"})
       = Cardinality({i \in 1..Len(calls) : calls[i].ret = "ok"})
  /\ \A i \in 1..Len(posts) :
       \E j \in 1..Len(handled) :
         /\ NotifyExtension(handled[j].req) = posts[i].extension
         /\ AvailabilityOf(handled[j].req) = posts[i].availability
  /\ \A h \in Handlers :
       (hpc[h] = "idle" /\ hcall[h] # NoCall /\ calls[hcall[h].idx].ret = "ok") =>
         /\ Len(PostEvents(h)) = 1
         /\ \E i \in 1..Len(posts) :
              /\ posts[i].extension = hcall[h].extension
              /\ posts[i].availability = hcall[h].availability

\* 1001 confirmed was received first, by h1, and 1001 terminated second, by
\* h2; h2 made its request first, so the last request made for 1001 is Busy
\* although the notification received last says the dialog is over.
C35_Witness ==
  /\ Len(handled) = 2
  /\ handled[1] = Receipt("h1", Notify(Doc(Uri1001, "confirmed"), NoHeader))
  /\ handled[2] = Receipt("h2", Notify(Doc(Uri1001, "terminated"), NoHeader))
  /\ Len(posts) = 2
  /\ posts[1].extension = <<"1001">> /\ posts[1].availability = GraphAvailabilityAvailable
  /\ posts[2].extension = <<"1001">> /\ posts[2].availability = GraphAvailabilityBusy
  /\ AvailabilityOf(handled[2].req) = GraphAvailabilityAvailable

=============================================================================
